---------------------------- MODULE Spec2Model ----------------------------
(***************************************************************************)
(* LetRecovery: the cross-environment install / backup workflows.          *)
(*                                                                         *)
(* The orchestrators of the repository are modelled as one workflow        *)
(* thread (variable pc), the detached progress relay thread it spawns      *)
(* around the imaging engine (progChan, relay) and the UI-facing channel   *)
(* (uiChan, an mpsc queue: its contents are the send order).  The UI is    *)
(* the consumer of that queue; it never influences the producers, so the   *)
(* UI state after a poll is the fold of process_messages over a prefix of  *)
(* the queue.                                                              *)
(*                                                                         *)
(* Orchestrators (variable orch):                                          *)
(*   PEI   PE端/src/app.rs        execute_install_workflow  (GUI, channel) *)
(*   PEB   PE端/src/app.rs        execute_backup_workflow   (GUI, channel) *)
(*   CLII  PE端/src/main.rs       run_cli_mode(true)                       *)
(*   CLIB  PE端/src/main.rs       run_cli_mode(false)                      *)
(*   NPI   正常系统端/src/main.rs  run_pe_install + execute_pe_install      *)
(*   NPB   正常系统端/src/main.rs  run_pe_backup + execute_pe_backup        *)
(*   DIR   正常系统端 install_progress.rs start_direct_install_thread       *)
(*   VIAPE 正常系统端 install_progress.rs start_pe_install_thread           *)
(***************************************************************************)
EXTENDS Naturals, Sequences, FiniteSets, TLC

VARIABLES
    orch,       \* the orchestrator this process runs
    pc,         \* position of the workflow thread
    config,     \* the job record / install options read by the workflow
    dataPart,   \* result of find_data_partition ("none" when not found)
    marker,     \* result of find_*_marker_partition ("none" when not found)
    target,     \* the partition the workflow operates on
    calls,      \* external operations invoked so far, in order
    failures,   \* the failures that occurred (what the code logs)
    uiChan,     \* UI-facing channel: every message sent, in send order
    progChan,   \* inner progress channel: engine -> relay, not yet relayed
    engine,     \* the imaging call: [st: "idle"|"running"|"closed", op, n, last]
    relay,      \* "none" | "running" | "done": the forwarding thread
    msgbox,     \* message boxes shown (CLI modes), in order
    reboot,     \* TRUE once a restart was triggered
    sess,       \* the offline registry session (advanced options)
    result      \* what execute_pe_install / execute_pe_backup returned

vars == <<orch, pc, config, dataPart, marker, target, calls, failures,
          uiChan, progChan, engine, relay, msgbox, reboot, sess, result>>

wfVars == <<orch, pc, config, dataPart, marker, target, calls, failures,
            uiChan, progChan, engine, relay, msgbox, reboot, result>>

-----------------------------------------------------------------------------
(* Bounds *)

\* engine progress callbacks per imaging call
MaxProgress == 1

\* flags set in one registry session
MaxOpts == 2

\* drive letters of the fixed partitions
Letters == {"C:", "D:"}

\* percentages the engine reports (non-decreasing within one call)
Percents == {40, 80}

None == "none"

-----------------------------------------------------------------------------
(* Messages on the UI-facing channel.  `by` is the sending thread ("wf" or  *)
(* "relay"); the receiver never reads it.                                  *)

MStep(s)        == [kind |-> "step",      arg |-> <<s>>, pct |-> 0, by |-> "wf"]
MStatus(t)      == [kind |-> "status",    arg |-> <<t>>, pct |-> 0, by |-> "wf"]
MProgress(p)    == [kind |-> "progress",  arg |-> <<>>,  pct |-> p, by |-> "wf"]
MRelayed(p)     == [kind |-> "progress",  arg |-> <<>>,  pct |-> p, by |-> "relay"]
MCompleted      == [kind |-> "completed", arg |-> <<>>,  pct |-> 0, by |-> "wf"]
MFailed(m)      == [kind |-> "failed",    arg |-> m,     pct |-> 0, by |-> "wf"]

\* DismProgress on the normal-system install channel; send_step formats the
\* status as "STEP:{step}:{name}"
StepDigits == <<"1", "2", "3", "4", "5", "6", "7">>

FormatStatus(step, name) == <<"STEP", StepDigits[step], name>>

MDism(step, name, p) ==
    [kind |-> "dism", arg |-> FormatStatus(step, name), pct |-> p, by |-> "wf"]

\* parse_step_from_status: <<step, name>> of a "STEP:n:name" status, the
\* empty tuple (None) for any other status
parse_step_from_status(status) ==
    IF /\ Len(status) = 3
       /\ status[1] = "STEP"
       /\ \E n \in 1..Len(StepDigits) : StepDigits[n] = status[2]
    THEN <<CHOOSE n \in 1..Len(StepDigits) : StepDigits[n] = status[2],
           status[3]>>
    ELSE <<>>

\* message boxes (show_error_message / show_success_message)
BoxError(m)     == [kind |-> "error",   arg |-> m]
BoxSuccess(m)   == [kind |-> "success", arg |-> m]

\* the error text a failed external operation returns; a message built with
\* format!("...: {}", e) is the prefix followed by that text
Err(op) == <<"error", op>>

-----------------------------------------------------------------------------
(* The job record.  One record type serves every orchestrator; a field an  *)
(* orchestrator never reads keeps its default.                             *)

DefaultConfig ==
    [target_partition |-> "C:",   \* install target / backup source letter
     is_gho           |-> FALSE,
     restore_drivers  |-> FALSE,  \* DIR / VIAPE: options.export_drivers
     unattended       |-> FALSE,
     auto_reboot      |-> FALSE,
     incremental      |-> FALSE,
     save_exists      |-> FALSE,  \* a container already exists at save_path
     format_partition |-> FALSE,  \* DIR: options.format_partition
     repair_boot      |-> FALSE]  \* DIR: options.repair_boot

\* ConfigFileManager::find_data_partition / find_*_marker_partition: the
\* first partition, in ascending letter order, that carries the marker.
LetterOrder == <<"C:", "D:">>

FindMarked(marks) ==
    IF marks = {} THEN None
    ELSE LET i == CHOOSE i \in 1..Len(LetterOrder) :
                     /\ LetterOrder[i] \in marks
                     /\ \A j \in 1..(i-1) : LetterOrder[j] \notin marks
         IN  LetterOrder[i]

\* install_progress.rs find_data_partition(exclude): the first of D: .. H:
\* that is not the excluded partition and whose root exists, else C:
DataCandidates == <<"D:">>

FindDataPartitionExcl(exclude, present) ==
    LET ok(i) == DataCandidates[i] # exclude /\ DataCandidates[i] \in present
    IN  IF \E i \in 1..Len(DataCandidates) : ok(i)
        THEN DataCandidates[CHOOSE i \in 1..Len(DataCandidates) :
                              ok(i) /\ \A j \in 1..(i-1) : ~ok(j)]
        ELSE "C:"

\* a resolver that never looks at the marker
ResolveTarget_IgnoreMarker(m, recorded) == recorded

\* `marker.unwrap_or_else(|| config.<letter>.clone())`
ResolveTarget(m, recorded) == IF m # None THEN m ELSE recorded

IdleEngine == [st |-> "idle", op |-> None, n |-> 0, last |-> 0]

\* an imaging call in flight, running engine operation `op`
Running(op) == [st |-> "running", op |-> op, n |-> 0, last |-> 0]

\* PE端 Dism: the engine operation behind each adapter entry point;
\* append_image delegates to capture_image (the engine appends by itself
\* when the container exists)
PEDismOp(entry) ==
    CASE entry = "apply_image"   -> "wim_apply"
      [] entry = "capture_image" -> "wim_capture"
      [] entry = "append_image"  -> "wim_capture"

\* what the advanced-options call returned to the workflow: the result of
\* the registry session when it was run, either result otherwise
AdvResults ==
    IF sess.pc = "returned" THEN {sess.ret = "ok"} ELSE BOOLEAN

\* the advanced-options call is not in progress
AdvCallDone == sess.pc \in {"idle", "returned"}

Send(ms) == uiChan' = uiChan \o ms

Call(c) == calls' = Append(calls, c)

Fail(f) == failures' = failures \cup {f}

Show(b) == msgbox' = Append(msgbox, b)

-----------------------------------------------------------------------------
(* The imaging engine and the relay thread.                                *)

\* The engine's progress callback while an imaging call is in flight: one
\* more percentage on the inner channel.
EngineEmit ==
    /\ engine.st = "running"
    /\ engine.n < MaxProgress
    /\ \E p \in Percents :
         /\ p >= engine.last
         /\ progChan' = Append(progChan, p)
         /\ engine' = [engine EXCEPT !.n = @ + 1, !.last = p]
    /\ UNCHANGED <<orch, pc, config, dataPart, marker, target, calls, failures,
                   uiChan, relay, msgbox, reboot, sess, result>>

\* What the relay thread sends for an engine percentage p: the PE workflows
\* wrap it in SetProgress; the direct install re-labels it as step 3 (image
\* engine) or passes the Ghost message through unchanged.
Relayed(p) ==
    IF orch \in {"PEI", "PEB"} THEN MRelayed(p)
    ELSE [kind |-> "dism",
          arg  |-> IF engine.op = "ghost_restore" THEN <<"ghost">>
                   ELSE FormatStatus(3, "apply"),
          pct  |-> p, by |-> "relay"]

\* `while let Ok(p) = rx.recv() { tx_clone.send(..) }`
RelayForward ==
    /\ relay = "running"
    /\ progChan # <<>>
    /\ Send(<<Relayed(Head(progChan))>>)
    /\ progChan' = Tail(progChan)
    /\ UNCHANGED <<orch, pc, config, dataPart, marker, target, calls, failures,
                   engine, relay, msgbox, reboot, sess, result>>

\* a relay that only notices the closed channel after a successful call
RelayExit_OnlyOnSuccess ==
    /\ relay = "running"
    /\ progChan = <<>>
    /\ engine.st = "closed"
    /\ failures = {}
    /\ relay' = "done"
    /\ UNCHANGED <<orch, pc, config, dataPart, marker, target, calls, failures,
                   uiChan, progChan, engine, msgbox, reboot, sess, result>>

\* recv() returns Err once every sender is dropped and the queue is empty
RelayExit ==
    /\ relay = "running"
    /\ progChan = <<>>
    /\ engine.st = "closed"
    /\ relay' = "done"
    /\ UNCHANGED <<orch, pc, config, dataPart, marker, target, calls, failures,
                   uiChan, progChan, engine, msgbox, reboot, sess, result>>

-----------------------------------------------------------------------------
(* PEI: PE端/src/app.rs execute_install_workflow                           *)

\* a workflow that falls back to C: and goes on when no job record is found
PEI_NoDataPartition_Guess ==
    /\ Fail("no_data_partition")
    /\ target' = "C:"
    /\ pc' = "format"
    /\ UNCHANGED <<config, marker, uiChan>>

\* lines 186-192: no data partition carries the job record
PEI_NoDataPartition ==
    /\ Send(<<MFailed(<<"no_install_config">>)>>)
    /\ Fail("no_data_partition")
    /\ pc' = "done"
    /\ UNCHANGED <<config, marker, target>>

\* lines 185-222: locate the data partition, read the job record, resolve
\* the target, check the image file
PEI_Start ==
    /\ orch = "PEI" /\ pc = "start"
    /\ \E marks \in SUBSET Letters :
         LET dp == FindMarked(marks) IN
         /\ dataPart' = dp
         /\ IF dp = None
            THEN PEI_NoDataPartition
            ELSE \E readOk \in BOOLEAN :
                 IF ~readOk
                 THEN /\ Send(<<MStatus("data_partition"),
                                MFailed(<<"read_config_failed">> \o Err("read_config"))>>)
                      /\ Fail("read_config")
                      /\ pc' = "done"
                      /\ UNCHANGED <<config, marker, target>>
                 ELSE \E tp \in Letters, gho, drv, una \in BOOLEAN,
                         tmarks \in SUBSET Letters, imageExists \in BOOLEAN :
                      /\ config' = [DefaultConfig EXCEPT
                                      !.target_partition = tp, !.is_gho = gho,
                                      !.restore_drivers = drv, !.unattended = una]
                      /\ marker' = FindMarked(tmarks)
                      /\ target' = ResolveTarget(FindMarked(tmarks), tp)
                      /\ IF ~imageExists
                         THEN /\ Send(<<MStatus("data_partition"),
                                        MFailed(<<"image_missing">>)>>)
                              /\ Fail("image_missing")
                              /\ pc' = "done"
                         ELSE /\ Send(<<MStatus("data_partition")>>)
                              /\ UNCHANGED failures
                              /\ pc' = "format"
    /\ UNCHANGED <<orch, calls, progChan, engine, relay, msgbox, reboot, sess, result>>

\* lines 224-237: Step 1, format the target
PEI_Format ==
    /\ orch = "PEI" /\ pc = "format"
    /\ Call(<<"format", target>>)
    /\ \E ok \in BOOLEAN :
         IF ok
         THEN /\ Send(<<MStep("FormatPartition"), MStatus("formatting"),
                        MProgress(100)>>)
              /\ UNCHANGED failures
              /\ pc' = "apply"
         ELSE /\ Send(<<MStep("FormatPartition"), MStatus("formatting"),
                        MFailed(<<"format_failed">> \o Err("format"))>>)
              /\ Fail("format")
              /\ pc' = "done"
    /\ UNCHANGED <<orch, config, dataPart, marker, target, progChan, engine,
                   relay, msgbox, reboot, sess, result>>

\* lines 239-254: Step 2 begins; the progress channel and the relay thread
PEI_ApplyEnter ==
    /\ orch = "PEI" /\ pc = "apply"
    /\ Send(<<MStep("ApplyImage"), MStatus("applying")>>)
    /\ progChan' = <<>>
    /\ relay' = "running"
    /\ pc' = "apply_call"
    /\ UNCHANGED <<orch, config, dataPart, marker, target, calls, failures,
                   engine, msgbox, reboot, sess, result>>

\* lines 256-270: route to Ghost or to the container engine and start it;
\* an unavailable Ghost returns at once, dropping progress_tx
PEI_ApplyCall ==
    /\ orch = "PEI" /\ pc = "apply_call"
    /\ IF config.is_gho
       THEN \E avail \in BOOLEAN :
            IF ~avail
            THEN /\ Send(<<MFailed(<<"ghost_unavailable">>)>>)
                 /\ Fail("ghost_unavailable")
                 /\ engine' = [engine EXCEPT !.st = "closed"]
                 /\ pc' = "done"
                 /\ UNCHANGED calls
            ELSE /\ Call(<<"ghost_restore", target>>)
                 /\ engine' = Running("ghost_restore")
                 /\ pc' = "apply_wait"
                 /\ UNCHANGED <<uiChan, failures>>
       ELSE /\ Call(<<"apply_image", target>>)
            /\ engine' = Running(PEDismOp("apply_image"))
            /\ pc' = "apply_wait"
            /\ UNCHANGED <<uiChan, failures>>
    /\ UNCHANGED <<orch, config, dataPart, marker, target, progChan, relay,
                   msgbox, reboot, sess, result>>

\* lines 272-278: the imaging call returns (every callback it made is on the
\* inner channel and its sender is dropped); the relay handle is dropped,
\* not joined
PEI_ApplyReturn ==
    /\ orch = "PEI" /\ pc = "apply_wait"
    /\ engine' = [engine EXCEPT !.st = "closed"]
    /\ \E ok \in BOOLEAN :
         IF ok
         THEN /\ Send(<<MProgress(100)>>)
              /\ UNCHANGED failures
              /\ pc' = "drivers"
         ELSE /\ Send(<<MFailed(<<"apply_failed">> \o Err("apply"))>>)
              /\ Fail("apply")
              /\ pc' = "done"
    /\ UNCHANGED <<orch, config, dataPart, marker, target, calls, progChan,
                   relay, msgbox, reboot, sess, result>>

\* line 281: Step 3 begins
PEI_DriversEnter ==
    /\ orch = "PEI" /\ pc = "drivers"
    /\ Send(<<MStep("ImportDrivers")>>)
    /\ pc' = "drivers_do"
    /\ UNCHANGED <<orch, config, dataPart, marker, target, calls, failures,
                   progChan, engine, relay, msgbox, reboot, sess, result>>

\* lines 283-295: import the saved drivers if requested; a failure is only
\* logged
PEI_DriversDo ==
    /\ orch = "PEI" /\ pc = "drivers_do"
    /\ IF config.restore_drivers
       THEN /\ Send(<<MStatus("importing_drivers"), MProgress(100)>>)
            /\ \E exists \in BOOLEAN :
                 IF exists
                 THEN /\ Call(<<"add_drivers_offline", target>>)
                      /\ \E ok \in BOOLEAN :
                           IF ok THEN UNCHANGED failures ELSE Fail("drivers")
                 ELSE UNCHANGED <<calls, failures>>
       ELSE /\ Send(<<MStatus("skip_drivers"), MProgress(100)>>)
            /\ UNCHANGED <<calls, failures>>
    /\ pc' = "boot"
    /\ UNCHANGED <<orch, config, dataPart, marker, target, progChan, engine,
                   relay, msgbox, reboot, sess, result>>

\* lines 298-299: Step 4 begins
PEI_BootEnter ==
    /\ orch = "PEI" /\ pc = "boot"
    /\ Send(<<MStep("RepairBoot"), MStatus("repairing_boot")>>)
    /\ pc' = "boot_do"
    /\ UNCHANGED <<orch, config, dataPart, marker, target, calls, failures,
                   progChan, engine, relay, msgbox, reboot, sess, result>>

\* lines 301-308: repair the boot configuration; a failure ends the workflow
PEI_BootDo ==
    /\ orch = "PEI" /\ pc = "boot_do"
    /\ Call(<<"repair_boot", target>>)
    /\ \E ok \in BOOLEAN :
         IF ok
         THEN /\ Send(<<MProgress(100)>>)
              /\ UNCHANGED failures
              /\ pc' = "adv"
         ELSE /\ Send(<<MFailed(<<"boot_failed">> \o Err("repair_boot"))>>)
              /\ Fail("repair_boot")
              /\ pc' = "done"
    /\ UNCHANGED <<orch, config, dataPart, marker, target, progChan, engine,
                   relay, msgbox, reboot, sess, result>>

\* lines 311-312: Step 5 begins
PEI_AdvEnter ==
    /\ orch = "PEI" /\ pc = "adv"
    /\ Send(<<MStep("ApplyAdvancedOptions"), MStatus("advanced_options")>>)
    /\ pc' = "adv_do"
    /\ UNCHANGED <<orch, config, dataPart, marker, target, calls, failures,
                   progChan, engine, relay, msgbox, reboot, sess, result>>

\* a workflow that treats an advanced-options failure as fatal
PEI_AdvDo_Abort ==
    /\ orch = "PEI" /\ pc = "adv_do"
    /\ Call(<<"apply_advanced_options", target>>)
    /\ \E ok \in BOOLEAN :
         IF ok
         THEN /\ Send(<<MProgress(100)>>)
              /\ UNCHANGED failures
              /\ pc' = "unattend"
         ELSE /\ Send(<<MFailed(<<"advanced_failed">>)>>)
              /\ Fail("advanced_options")
              /\ pc' = "done"
    /\ UNCHANGED <<orch, config, dataPart, marker, target, progChan, engine,
                   relay, msgbox, reboot, sess, result>>

\* lines 314-317: the offline registry session; a failure is only logged
PEI_AdvDo ==
    /\ orch = "PEI" /\ pc = "adv_do"
    /\ AdvCallDone
    /\ Call(<<"apply_advanced_options", target>>)
    /\ \E ok \in AdvResults :
         IF ok THEN UNCHANGED failures ELSE Fail("advanced_options")
    /\ Send(<<MProgress(100)>>)
    /\ pc' = "unattend"
    /\ UNCHANGED <<orch, config, dataPart, marker, target, progChan, engine,
                   relay, msgbox, reboot, sess, result>>

\* line 320: Step 6 begins
PEI_UnattendEnter ==
    /\ orch = "PEI" /\ pc = "unattend"
    /\ Send(<<MStep("GenerateUnattend")>>)
    /\ pc' = "unattend_do"
    /\ UNCHANGED <<orch, config, dataPart, marker, target, calls, failures,
                   progChan, engine, relay, msgbox, reboot, sess, result>>

\* lines 322-330: write the answer file if requested; a failure is only
\* logged
PEI_UnattendDo ==
    /\ orch = "PEI" /\ pc = "unattend_do"
    /\ IF config.unattended
       THEN /\ Send(<<MStatus("generating_unattend"), MProgress(100)>>)
            /\ Call(<<"generate_unattend_xml", target>>)
            /\ \E ok \in BOOLEAN :
                 IF ok THEN UNCHANGED failures ELSE Fail("unattend")
       ELSE /\ Send(<<MStatus("skip_unattend"), MProgress(100)>>)
            /\ UNCHANGED <<calls, failures>>
    /\ pc' = "cleanup"
    /\ UNCHANGED <<orch, config, dataPart, marker, target, progChan, engine,
                   relay, msgbox, reboot, sess, result>>

\* lines 333-334: Step 7 begins
PEI_CleanupEnter ==
    /\ orch = "PEI" /\ pc = "cleanup"
    /\ Send(<<MStep("Cleanup"), MStatus("cleaning")>>)
    /\ pc' = "cleanup_do"
    /\ UNCHANGED <<orch, config, dataPart, marker, target, calls, failures,
                   progChan, engine, relay, msgbox, reboot, sess, result>>

\* lines 336-337: remove the markers, the data directory and the PE files
PEI_CleanupDo ==
    /\ orch = "PEI" /\ pc = "cleanup_do"
    /\ Call(<<"cleanup_all", dataPart, target>>)
    /\ Send(<<MProgress(100)>>)
    /\ pc' = "complete"
    /\ UNCHANGED <<orch, config, dataPart, marker, target, failures, progChan,
                   engine, relay, msgbox, reboot, sess, result>>

\* lines 340-341: completion is announced
PEI_Complete ==
    /\ orch = "PEI" /\ pc = "complete"
    /\ Send(<<MStep("Complete"), MCompleted>>)
    /\ pc' = "reboot"
    /\ UNCHANGED <<orch, config, dataPart, marker, target, calls, failures,
                   progChan, engine, relay, msgbox, reboot, sess, result>>

\* lines 347-348: the PE always restarts after a successful install
PEI_Reboot ==
    /\ orch = "PEI" /\ pc = "reboot"
    /\ reboot' = TRUE
    /\ pc' = "done"
    /\ UNCHANGED <<orch, config, dataPart, marker, target, calls, failures,
                   uiChan, progChan, engine, relay, msgbox, sess, result>>

-----------------------------------------------------------------------------
(* PEB: PE端/src/app.rs execute_backup_workflow                            *)

\* lines 358-387: locate the data partition, Step 1 read the job record,
\* resolve the source partition
PEB_Start ==
    /\ orch = "PEB" /\ pc = "start"
    /\ \E marks \in SUBSET Letters :
         LET dp == FindMarked(marks) IN
         /\ dataPart' = dp
         /\ IF dp = None
            THEN /\ Send(<<MFailed(<<"no_backup_config">>)>>)
                 /\ Fail("no_data_partition")
                 /\ pc' = "done"
                 /\ UNCHANGED <<config, marker, target>>
            ELSE \E readOk \in BOOLEAN :
                 IF ~readOk
                 THEN /\ Send(<<MStep("ReadConfig"), MStatus("reading_config"),
                                MFailed(<<"read_config_failed">> \o Err("read_config"))>>)
                      /\ Fail("read_config")
                      /\ pc' = "done"
                      /\ UNCHANGED <<config, marker, target>>
                 ELSE \E sp \in Letters, inc, ex \in BOOLEAN,
                         smarks \in SUBSET Letters :
                      /\ config' = [DefaultConfig EXCEPT
                                      !.target_partition = sp,
                                      !.incremental = inc, !.save_exists = ex]
                      /\ marker' = FindMarked(smarks)
                      /\ target' = ResolveTarget(FindMarked(smarks), sp)
                      /\ Send(<<MStep("ReadConfig"), MStatus("reading_config"),
                                MProgress(100)>>)
                      /\ UNCHANGED failures
                      /\ pc' = "capture"
    /\ UNCHANGED <<orch, calls, progChan, engine, relay, msgbox, reboot, sess, result>>

\* lines 390-404: Step 2 begins; the progress channel and the relay thread
PEB_CaptureEnter ==
    /\ orch = "PEB" /\ pc = "capture"
    /\ Send(<<MStep("CaptureImage"), MStatus("capturing")>>)
    /\ progChan' = <<>>
    /\ relay' = "running"
    /\ pc' = "capture_call"
    /\ UNCHANGED <<orch, config, dataPart, marker, target, calls, failures,
                   engine, msgbox, reboot, sess, result>>

\* a backup that ignores the incremental flag
PEB_BackupEntry_AlwaysCapture(cfg) == "capture_image"

\* line 406: the adapter entry point the backup uses
PEB_BackupEntry(cfg) ==
    IF cfg.incremental /\ cfg.save_exists THEN "append_image"
    ELSE "capture_image"

\* lines 406-422: append to the existing container of an incremental job,
\* capture otherwise
PEB_CaptureCall ==
    /\ orch = "PEB" /\ pc = "capture_call"
    /\ Call(<<PEB_BackupEntry(config), target>>)
    /\ engine' = Running(PEDismOp(PEB_BackupEntry(config)))
    /\ pc' = "capture_wait"
    /\ UNCHANGED <<orch, config, dataPart, marker, target, failures, uiChan,
                   progChan, relay, msgbox, reboot, sess, result>>

\* lines 424-430: the imaging call returns; the relay handle is dropped,
\* not joined
PEB_CaptureReturn ==
    /\ orch = "PEB" /\ pc = "capture_wait"
    /\ engine' = [engine EXCEPT !.st = "closed"]
    /\ \E ok \in BOOLEAN :
         IF ok
         THEN /\ Send(<<MProgress(100)>>)
              /\ UNCHANGED failures
              /\ pc' = "verify"
         ELSE /\ Send(<<MFailed(<<"backup_failed">> \o Err("capture"))>>)
              /\ Fail("capture")
              /\ pc' = "done"
    /\ UNCHANGED <<orch, config, dataPart, marker, target, calls, progChan,
                   relay, msgbox, reboot, sess, result>>

\* lines 433-434: Step 3 begins
PEB_VerifyEnter ==
    /\ orch = "PEB" /\ pc = "verify"
    /\ Send(<<MStep("VerifyBackup"), MStatus("verifying")>>)
    /\ pc' = "verify_do"
    /\ UNCHANGED <<orch, config, dataPart, marker, target, calls, failures,
                   progChan, engine, relay, msgbox, reboot, sess, result>>

\* lines 436-440: the container must exist at save_path
PEB_VerifyDo ==
    /\ orch = "PEB" /\ pc = "verify_do"
    /\ Call(<<"verify_output">>)
    /\ \E exists \in BOOLEAN :
         IF exists
         THEN /\ Send(<<MProgress(100)>>)
              /\ UNCHANGED failures
              /\ pc' = "boot"
         ELSE /\ Send(<<MFailed(<<"verify_failed">>)>>)
              /\ Fail("verify")
              /\ pc' = "done"
    /\ UNCHANGED <<orch, config, dataPart, marker, target, progChan, engine,
                   relay, msgbox, reboot, sess, result>>

\* lines 443-444: Step 4 begins
PEB_BootEnter ==
    /\ orch = "PEB" /\ pc = "boot"
    /\ Send(<<MStep("RepairBoot"), MStatus("restoring_boot")>>)
    /\ pc' = "boot_do"
    /\ UNCHANGED <<orch, config, dataPart, marker, target, calls, failures,
                   progChan, engine, relay, msgbox, reboot, sess, result>>

\* lines 446-449: delete the PE's own boot entry; the result is discarded
PEB_BootDo ==
    /\ orch = "PEB" /\ pc = "boot_do"
    /\ Call(<<"delete_current_boot_entry">>)
    /\ \E ok \in BOOLEAN :
         IF ok THEN UNCHANGED failures ELSE Fail("delete_boot_entry")
    /\ Send(<<MProgress(100)>>)
    /\ pc' = "cleanup"
    /\ UNCHANGED <<orch, config, dataPart, marker, target, progChan, engine,
                   relay, msgbox, reboot, sess, result>>

\* lines 452-453: Step 5 begins
PEB_CleanupEnter ==
    /\ orch = "PEB" /\ pc = "cleanup"
    /\ Send(<<MStep("Cleanup"), MStatus("cleaning")>>)
    /\ pc' = "cleanup_do"
    /\ UNCHANGED <<orch, config, dataPart, marker, target, calls, failures,
                   progChan, engine, relay, msgbox, reboot, sess, result>>

\* lines 455-458: remove the markers, the data directory and the PE files
PEB_CleanupDo ==
    /\ orch = "PEB" /\ pc = "cleanup_do"
    /\ calls' = calls \o << <<"cleanup_partition_markers", target>>,
                            <<"cleanup_data_dir", dataPart>>,
                            <<"cleanup_pe_dir", dataPart>> >>
    /\ Send(<<MProgress(100)>>)
    /\ pc' = "complete"
    /\ UNCHANGED <<orch, config, dataPart, marker, target, failures, progChan,
                   engine, relay, msgbox, reboot, sess, result>>

\* lines 461-462: completion is announced
PEB_Complete ==
    /\ orch = "PEB" /\ pc = "complete"
    /\ Send(<<MStep("Complete"), MCompleted>>)
    /\ pc' = "reboot"
    /\ UNCHANGED <<orch, config, dataPart, marker, target, calls, failures,
                   progChan, engine, relay, msgbox, reboot, sess, result>>

\* lines 468-469: the PE always restarts after a successful backup
PEB_Reboot ==
    /\ orch = "PEB" /\ pc = "reboot"
    /\ reboot' = TRUE
    /\ pc' = "done"
    /\ UNCHANGED <<orch, config, dataPart, marker, target, calls, failures,
                   uiChan, progChan, engine, relay, msgbox, sess, result>>

-----------------------------------------------------------------------------
(* CLII: PE端/src/main.rs run_cli_mode(true), the silent install           *)

\* lines 113-149: data partition, job record, target, image file
CLII_Start ==
    /\ orch = "CLII" /\ pc = "start"
    /\ \E marks \in SUBSET Letters :
         LET dp == FindMarked(marks) IN
         /\ dataPart' = dp
         /\ IF dp = None
            THEN /\ Show(BoxError(<<"no_install_config">>))
                 /\ Fail("no_data_partition")
                 /\ pc' = "done"
                 /\ UNCHANGED <<config, marker, target>>
            ELSE \E readOk \in BOOLEAN :
                 IF ~readOk
                 THEN /\ Show(BoxError(<<"read_config_failed">> \o Err("read_config")))
                      /\ Fail("read_config")
                      /\ pc' = "done"
                      /\ UNCHANGED <<config, marker, target>>
                 ELSE \E tp \in Letters, gho, drv, una, arb \in BOOLEAN,
                         tmarks \in SUBSET Letters, imageExists \in BOOLEAN :
                      /\ config' = [DefaultConfig EXCEPT
                                      !.target_partition = tp, !.is_gho = gho,
                                      !.restore_drivers = drv, !.unattended = una,
                                      !.auto_reboot = arb]
                      /\ marker' = FindMarked(tmarks)
                      /\ target' = ResolveTarget(FindMarked(tmarks), tp)
                      /\ IF ~imageExists
                         THEN /\ Show(BoxError(<<"image_missing">>))
                              /\ Fail("image_missing")
                              /\ pc' = "done"
                         ELSE /\ UNCHANGED <<msgbox, failures>>
                              /\ pc' = "format"
    /\ UNCHANGED <<orch, calls, uiChan, progChan, engine, relay, reboot, sess,
                   result>>

\* lines 155-159: Step 1
CLII_Format ==
    /\ orch = "CLII" /\ pc = "format"
    /\ Call(<<"format", target>>)
    /\ \E ok \in BOOLEAN :
         IF ok
         THEN /\ UNCHANGED <<msgbox, failures>>
              /\ pc' = "apply"
         ELSE /\ Show(BoxError(<<"format_failed">> \o Err("format")))
              /\ Fail("format")
              /\ pc' = "done"
    /\ UNCHANGED <<orch, config, dataPart, marker, target, uiChan, progChan,
                   engine, relay, reboot, sess, result>>

\* lines 165-182: Step 2, no progress sink is passed
CLII_Apply ==
    /\ orch = "CLII" /\ pc = "apply"
    /\ IF config.is_gho
       THEN \E avail \in BOOLEAN :
            IF ~avail
            THEN /\ Show(BoxError(<<"ghost_unavailable">>))
                 /\ Fail("ghost_unavailable")
                 /\ pc' = "done"
                 /\ UNCHANGED calls
            ELSE /\ Call(<<"ghost_restore", target>>)
                 /\ \E ok \in BOOLEAN :
                      IF ok
                      THEN /\ UNCHANGED <<msgbox, failures>>
                           /\ pc' = "drivers"
                      ELSE /\ Show(BoxError(<<"apply_failed">> \o Err("apply")))
                           /\ Fail("apply")
                           /\ pc' = "done"
       ELSE /\ Call(<<"apply_image", target>>)
            /\ \E ok \in BOOLEAN :
                 IF ok
                 THEN /\ UNCHANGED <<msgbox, failures>>
                      /\ pc' = "drivers"
                 ELSE /\ Show(BoxError(<<"apply_failed">> \o Err("apply")))
                      /\ Fail("apply")
                      /\ pc' = "done"
    /\ UNCHANGED <<orch, config, dataPart, marker, target, uiChan, progChan,
                   engine, relay, reboot, sess, result>>

\* lines 186-192: Step 3, the result is discarded
CLII_Drivers ==
    /\ orch = "CLII" /\ pc = "drivers"
    /\ IF config.restore_drivers
       THEN \E exists \in BOOLEAN :
            IF exists
            THEN /\ Call(<<"add_drivers_offline", target>>)
                 /\ \E ok \in BOOLEAN :
                      IF ok THEN UNCHANGED failures ELSE Fail("drivers")
            ELSE UNCHANGED <<calls, failures>>
       ELSE UNCHANGED <<calls, failures>>
    /\ pc' = "boot"
    /\ UNCHANGED <<orch, config, dataPart, marker, target, uiChan, progChan,
                   engine, relay, msgbox, reboot, sess, result>>

\* lines 196-203: Step 4, a failure ends the run
CLII_Boot ==
    /\ orch = "CLII" /\ pc = "boot"
    /\ Call(<<"repair_boot", target>>)
    /\ \E ok \in BOOLEAN :
         IF ok
         THEN /\ UNCHANGED <<msgbox, failures>>
              /\ pc' = "adv"
         ELSE /\ Show(BoxError(<<"boot_failed">> \o Err("repair_boot")))
              /\ Fail("repair_boot")
              /\ pc' = "done"
    /\ UNCHANGED <<orch, config, dataPart, marker, target, uiChan, progChan,
                   engine, relay, reboot, sess, result>>

\* line 207: Step 5, the result is discarded
CLII_Adv ==
    /\ orch = "CLII" /\ pc = "adv"
    /\ Call(<<"apply_advanced_options", target>>)
    /\ \E ok \in BOOLEAN :
         IF ok THEN UNCHANGED failures ELSE Fail("advanced_options")
    /\ pc' = "unattend"
    /\ UNCHANGED <<orch, config, dataPart, marker, target, uiChan, progChan,
                   engine, relay, msgbox, reboot, sess, result>>

\* lines 210-213: Step 6, the result is discarded
CLII_Unattend ==
    /\ orch = "CLII" /\ pc = "unattend"
    /\ IF config.unattended
       THEN /\ Call(<<"generate_unattend_xml", target>>)
            /\ \E ok \in BOOLEAN :
                 IF ok THEN UNCHANGED failures ELSE Fail("unattend")
       ELSE UNCHANGED <<calls, failures>>
    /\ pc' = "cleanup"
    /\ UNCHANGED <<orch, config, dataPart, marker, target, uiChan, progChan,
                   engine, relay, msgbox, reboot, sess, result>>

\* lines 217-228: Step 7 and the end of the run
CLII_Finish ==
    /\ orch = "CLII" /\ pc = "cleanup"
    /\ Call(<<"cleanup_all", dataPart, target>>)
    /\ IF config.auto_reboot
       THEN /\ reboot' = TRUE
            /\ UNCHANGED msgbox
       ELSE /\ Show(BoxSuccess(<<"install_complete">>))
            /\ UNCHANGED reboot
    /\ pc' = "done"
    /\ UNCHANGED <<orch, config, dataPart, marker, target, failures, uiChan,
                   progChan, engine, relay, sess, result>>

-----------------------------------------------------------------------------
(* CLIB: PE端/src/main.rs run_cli_mode(false), the silent backup           *)

\* lines 234-260: data partition, job record, source partition
CLIB_Start ==
    /\ orch = "CLIB" /\ pc = "start"
    /\ \E marks \in SUBSET Letters :
         LET dp == FindMarked(marks) IN
         /\ dataPart' = dp
         /\ IF dp = None
            THEN /\ Show(BoxError(<<"no_backup_config">>))
                 /\ Fail("no_data_partition")
                 /\ pc' = "done"
                 /\ UNCHANGED <<config, marker, target>>
            ELSE \E readOk \in BOOLEAN :
                 IF ~readOk
                 THEN /\ Show(BoxError(<<"read_config_failed">> \o Err("read_config")))
                      /\ Fail("read_config")
                      /\ pc' = "done"
                      /\ UNCHANGED <<config, marker, target>>
                 ELSE \E sp \in Letters, inc, ex \in BOOLEAN,
                         smarks \in SUBSET Letters :
                      /\ config' = [DefaultConfig EXCEPT
                                      !.target_partition = sp,
                                      !.incremental = inc, !.save_exists = ex]
                      /\ marker' = FindMarked(smarks)
                      /\ target' = ResolveTarget(FindMarked(smarks), sp)
                      /\ UNCHANGED <<msgbox, failures>>
                      /\ pc' = "capture"
    /\ UNCHANGED <<orch, calls, uiChan, progChan, engine, relay, reboot, sess,
                   result>>

\* lines 266-289: append or capture, no progress sink is passed
CLIB_Capture ==
    /\ orch = "CLIB" /\ pc = "capture"
    /\ IF config.incremental /\ config.save_exists
       THEN Call(<<"append_image", target>>)
       ELSE Call(<<"capture_image", target>>)
    /\ \E ok \in BOOLEAN :
         IF ok
         THEN /\ UNCHANGED <<msgbox, failures>>
              /\ pc' = "boot"
         ELSE /\ Show(BoxError(<<"backup_failed">> \o Err("capture")))
              /\ Fail("capture")
              /\ pc' = "done"
    /\ UNCHANGED <<orch, config, dataPart, marker, target, uiChan, progChan,
                   engine, relay, reboot, sess, result>>

\* lines 292-293: delete the PE's own boot entry; the result is discarded
CLIB_Boot ==
    /\ orch = "CLIB" /\ pc = "boot"
    /\ Call(<<"delete_current_boot_entry">>)
    /\ \E ok \in BOOLEAN :
         IF ok THEN UNCHANGED failures ELSE Fail("delete_boot_entry")
    /\ pc' = "cleanup"
    /\ UNCHANGED <<orch, config, dataPart, marker, target, uiChan, progChan,
                   engine, relay, msgbox, reboot, sess, result>>

\* lines 296-315: cleanup, success box, restart
CLIB_Finish ==
    /\ orch = "CLIB" /\ pc = "cleanup"
    /\ calls' = calls \o << <<"cleanup_partition_markers", target>>,
                            <<"cleanup_data_dir", dataPart>>,
                            <<"cleanup_pe_dir", dataPart>> >>
    /\ Show(BoxSuccess(<<"backup_complete">>))
    /\ reboot' = TRUE
    /\ pc' = "done"
    /\ UNCHANGED <<orch, config, dataPart, marker, target, failures, uiChan,
                   progChan, engine, relay, sess, result>>

-----------------------------------------------------------------------------
(* NPI: 正常系统端/src/main.rs run_pe_install and execute_pe_install         *)

\* run_pe_install lines 167-205: data partition, job record, target, image
NPI_Start ==
    /\ orch = "NPI" /\ pc = "start"
    /\ \E marks \in SUBSET Letters :
         LET dp == FindMarked(marks) IN
         /\ dataPart' = dp
         /\ IF dp = None
            THEN /\ Show(BoxError(<<"no_install_config">>))
                 /\ Fail("no_data_partition")
                 /\ pc' = "done"
                 /\ UNCHANGED <<config, marker, target>>
            ELSE \E readOk \in BOOLEAN :
                 IF ~readOk
                 THEN /\ Show(BoxError(<<"read_config_failed">> \o Err("read_config")))
                      /\ Fail("read_config")
                      /\ pc' = "done"
                      /\ UNCHANGED <<config, marker, target>>
                 ELSE \E tp \in Letters, gho, drv, una, arb \in BOOLEAN,
                         tmarks \in SUBSET Letters, imageExists \in BOOLEAN :
                      /\ config' = [DefaultConfig EXCEPT
                                      !.target_partition = tp, !.is_gho = gho,
                                      !.restore_drivers = drv, !.unattended = una,
                                      !.auto_reboot = arb]
                      /\ marker' = FindMarked(tmarks)
                      /\ target' = ResolveTarget(FindMarked(tmarks), tp)
                      /\ IF ~imageExists
                         THEN /\ Show(BoxError(<<"image_missing">>))
                              /\ Fail("image_missing")
                              /\ pc' = "done"
                         ELSE /\ UNCHANGED <<msgbox, failures>>
                              /\ pc' = "format"
    /\ UNCHANGED <<orch, calls, uiChan, progChan, engine, relay, reboot, sess,
                   result>>

\* execute_pe_install lines 302-312: Step 1
NPI_Format ==
    /\ orch = "NPI" /\ pc = "format"
    /\ Call(<<"format", target>>)
    /\ \E ok \in BOOLEAN :
         IF ok
         THEN /\ UNCHANGED <<failures, result>>
              /\ pc' = "apply"
         ELSE /\ Fail("format")
              /\ result' = <<"format_failed">> \o Err("format")
              /\ pc' = "return"
    /\ UNCHANGED <<orch, config, dataPart, marker, target, uiChan, progChan,
                   engine, relay, msgbox, reboot, sess>>

\* execute_pe_install lines 314-331: Step 2
NPI_Apply ==
    /\ orch = "NPI" /\ pc = "apply"
    /\ IF config.is_gho
       THEN \E avail \in BOOLEAN :
            IF ~avail
            THEN /\ Fail("ghost_unavailable")
                 /\ result' = <<"ghost_unavailable">>
                 /\ pc' = "return"
                 /\ UNCHANGED calls
            ELSE /\ Call(<<"ghost_restore", target>>)
                 /\ \E ok \in BOOLEAN :
                      IF ok
                      THEN /\ UNCHANGED <<failures, result>>
                           /\ pc' = "drivers"
                      ELSE /\ Fail("apply")
                           /\ result' = Err("apply")
                           /\ pc' = "return"
       ELSE /\ Call(<<"apply_image", target>>)
            /\ \E ok \in BOOLEAN :
                 IF ok
                 THEN /\ UNCHANGED <<failures, result>>
                      /\ pc' = "drivers"
                 ELSE /\ Fail("apply")
                      /\ result' = Err("apply")
                      /\ pc' = "return"
    /\ UNCHANGED <<orch, config, dataPart, marker, target, uiChan, progChan,
                   engine, relay, msgbox, reboot, sess>>

\* execute_pe_install lines 333-341: Step 3, the result is discarded
NPI_Drivers ==
    /\ orch = "NPI" /\ pc = "drivers"
    /\ IF config.restore_drivers
       THEN \E exists \in BOOLEAN :
            IF exists
            THEN /\ Call(<<"add_drivers_offline", target>>)
                 /\ \E ok \in BOOLEAN :
                      IF ok THEN UNCHANGED failures ELSE Fail("drivers")
            ELSE UNCHANGED <<calls, failures>>
       ELSE UNCHANGED <<calls, failures>>
    /\ pc' = "boot"
    /\ UNCHANGED <<orch, config, dataPart, marker, target, uiChan, progChan,
                   engine, relay, msgbox, reboot, sess, result>>

\* execute_pe_install lines 343-347: Step 4, `?` returns the failure
NPI_Boot ==
    /\ orch = "NPI" /\ pc = "boot"
    /\ Call(<<"repair_boot", target>>)
    /\ \E ok \in BOOLEAN :
         IF ok
         THEN /\ UNCHANGED <<failures, result>>
              /\ pc' = "adv"
         ELSE /\ Fail("repair_boot")
              /\ result' = Err("repair_boot")
              /\ pc' = "return"
    /\ UNCHANGED <<orch, config, dataPart, marker, target, uiChan, progChan,
                   engine, relay, msgbox, reboot, sess>>

\* execute_pe_install lines 349-364: Step 5, the result is discarded
NPI_Adv ==
    /\ orch = "NPI" /\ pc = "adv"
    /\ AdvCallDone
    /\ Call(<<"apply_advanced_options", target>>)
    /\ \E ok \in AdvResults :
         IF ok THEN UNCHANGED failures ELSE Fail("advanced_options")
    /\ pc' = "unattend"
    /\ UNCHANGED <<orch, config, dataPart, marker, target, uiChan, progChan,
                   engine, relay, msgbox, reboot, sess, result>>

\* execute_pe_install lines 366-369: the answer file, result discarded
NPI_Unattend ==
    /\ orch = "NPI" /\ pc = "unattend"
    /\ IF config.unattended
       THEN /\ Call(<<"generate_unattend_xml", target>>)
            /\ \E ok \in BOOLEAN :
                 IF ok THEN UNCHANGED failures ELSE Fail("unattend")
       ELSE UNCHANGED <<calls, failures>>
    /\ pc' = "cleanup"
    /\ UNCHANGED <<orch, config, dataPart, marker, target, uiChan, progChan,
                   engine, relay, msgbox, reboot, sess, result>>

\* execute_pe_install lines 371-375: Step 6, remove the data directory
NPI_Cleanup ==
    /\ orch = "NPI" /\ pc = "cleanup"
    /\ Call(<<"cleanup_data_dir", dataPart>>)
    /\ result' = <<"ok">>
    /\ pc' = "return"
    /\ UNCHANGED <<orch, config, dataPart, marker, target, failures, uiChan,
                   progChan, engine, relay, msgbox, reboot, sess>>

\* run_pe_install lines 212-231: markers are removed whatever the result;
\* then restart, success box or error box
NPI_Return ==
    /\ orch = "NPI" /\ pc = "return"
    /\ Call(<<"cleanup_partition_markers", target>>)
    /\ IF result = <<"ok">>
       THEN IF config.auto_reboot
            THEN /\ reboot' = TRUE
                 /\ UNCHANGED msgbox
            ELSE /\ Show(BoxSuccess(<<"install_complete">>))
                 /\ UNCHANGED reboot
       ELSE /\ Show(BoxError(<<"install_failed">> \o result))
            /\ UNCHANGED reboot
    /\ pc' = "done"
    /\ UNCHANGED <<orch, config, dataPart, marker, target, failures, uiChan,
                   progChan, engine, relay, sess, result>>

-----------------------------------------------------------------------------
(* NPB: 正常系统端/src/main.rs run_pe_backup and execute_pe_backup           *)

\* run_pe_backup lines 243-271: data partition, job record, source
NPB_Start ==
    /\ orch = "NPB" /\ pc = "start"
    /\ \E marks \in SUBSET Letters :
         LET dp == FindMarked(marks) IN
         /\ dataPart' = dp
         /\ IF dp = None
            THEN /\ Show(BoxError(<<"no_backup_config">>))
                 /\ Fail("no_data_partition")
                 /\ pc' = "done"
                 /\ UNCHANGED <<config, marker, target>>
            ELSE \E readOk \in BOOLEAN :
                 IF ~readOk
                 THEN /\ Show(BoxError(<<"read_config_failed">> \o Err("read_config")))
                      /\ Fail("read_config")
                      /\ pc' = "done"
                      /\ UNCHANGED <<config, marker, target>>
                 ELSE \E sp \in Letters, inc, ex \in BOOLEAN,
                         smarks \in SUBSET Letters :
                      /\ config' = [DefaultConfig EXCEPT
                                      !.target_partition = sp,
                                      !.incremental = inc, !.save_exists = ex]
                      /\ marker' = FindMarked(smarks)
                      /\ target' = ResolveTarget(FindMarked(smarks), sp)
                      /\ UNCHANGED <<msgbox, failures>>
                      /\ pc' = "capture"
    /\ UNCHANGED <<orch, calls, uiChan, progChan, engine, relay, reboot, sess,
                   result>>

\* execute_pe_backup lines 379-403: append or capture
NPB_Capture ==
    /\ orch = "NPB" /\ pc = "capture"
    /\ IF config.incremental /\ config.save_exists
       THEN Call(<<"append_image", target>>)
       ELSE Call(<<"capture_image", target>>)
    /\ \E ok \in BOOLEAN :
         IF ok
         THEN /\ result' = <<"ok">>
              /\ UNCHANGED failures
         ELSE /\ result' = Err("capture")
              /\ Fail("capture")
    /\ pc' = "return"
    /\ UNCHANGED <<orch, config, dataPart, marker, target, uiChan, progChan,
                   engine, relay, msgbox, reboot, sess>>

\* run_pe_backup lines 276-288: markers are removed whatever the result;
\* then success box or error box
NPB_Return ==
    /\ orch = "NPB" /\ pc = "return"
    /\ Call(<<"cleanup_partition_markers", target>>)
    /\ IF result = <<"ok">>
       THEN Show(BoxSuccess(<<"backup_complete">>))
       ELSE Show(BoxError(<<"backup_failed">> \o result))
    /\ pc' = "done"
    /\ UNCHANGED <<orch, config, dataPart, marker, target, failures, uiChan,
                   progChan, engine, relay, reboot, sess, result>>

-----------------------------------------------------------------------------
(* DIR: 正常系统端 install_progress.rs start_direct_install_thread          *)

\* lines 216-249: the options are captured, the thread starts and announces
\* step 1
DIR_Start ==
    /\ orch = "DIR" /\ pc = "start"
    /\ \E tp \in Letters, fmt, drv, rb, una, gho, ar \in BOOLEAN :
         /\ config' = [DefaultConfig EXCEPT
                         !.target_partition = tp, !.format_partition = fmt,
                         !.restore_drivers = drv, !.repair_boot = rb,
                         !.unattended = una, !.is_gho = gho,
                         !.auto_reboot = ar]
         /\ target' = tp
    /\ Send(<<MDism(1, "format", 0)>>)
    /\ pc' = "format"
    /\ UNCHANGED <<orch, dataPart, marker, calls, failures, progChan, engine,
                   relay, msgbox, reboot, sess, result>>

\* lines 251-262: Step 1; a format failure is printed and the thread goes on
DIR_Format ==
    /\ orch = "DIR" /\ pc = "format"
    /\ IF config.format_partition
       THEN /\ Call(<<"format", target>>)
            /\ \E ok \in BOOLEAN :
                 IF ok THEN UNCHANGED failures ELSE Fail("format")
            /\ Send(<<MDism(1, "format", 30), MDism(1, "format", 100)>>)
       ELSE /\ Send(<<MDism(1, "format", 100)>>)
            /\ UNCHANGED <<calls, failures>>
    /\ pc' = "export"
    /\ UNCHANGED <<orch, config, dataPart, marker, target, progChan, engine,
                   relay, msgbox, reboot, sess, result>>

\* lines 266-285: Step 2, export the running system's drivers
DIR_Export ==
    /\ orch = "DIR" /\ pc = "export"
    /\ IF config.restore_drivers
       THEN /\ Call(<<"export_drivers">>)
            /\ \E ok \in BOOLEAN :
                 IF ok THEN UNCHANGED failures ELSE Fail("export_drivers")
            /\ Send(<<MDism(2, "export", 0), MDism(2, "export", 20),
                      MDism(2, "export", 100)>>)
       ELSE /\ Send(<<MDism(2, "export", 0), MDism(2, "export", 100)>>)
            /\ UNCHANGED <<calls, failures>>
    /\ pc' = "apply"
    /\ UNCHANGED <<orch, config, dataPart, marker, target, progChan, engine,
                   relay, msgbox, reboot, sess, result>>

\* lines 289-336: Step 3 begins; an unavailable Ghost is printed and the
\* step is reported complete; otherwise the relay thread is spawned and the
\* imaging call starts
DIR_ApplyEnter ==
    /\ orch = "DIR" /\ pc = "apply"
    /\ IF config.is_gho
       THEN \E avail \in BOOLEAN :
            IF ~avail
            THEN /\ Send(<<MDism(3, "apply", 0), MDism(3, "apply", 100),
                           MDism(3, "apply", 100)>>)
                 /\ Fail("ghost_unavailable")
                 /\ pc' = "import"
                 /\ UNCHANGED <<calls, progChan, engine, relay>>
            ELSE /\ Send(<<MDism(3, "apply", 0)>>)
                 /\ Call(<<"ghost_restore", target>>)
                 /\ progChan' = <<>>
                 /\ relay' = "running"
                 /\ engine' = Running("ghost_restore")
                 /\ pc' = "apply_wait"
                 /\ UNCHANGED failures
       ELSE /\ Send(<<MDism(3, "apply", 0)>>)
            /\ Call(<<"apply_image", target>>)
            /\ progChan' = <<>>
            /\ relay' = "running"
            /\ engine' = Running("/Apply-Image")
            /\ pc' = "apply_wait"
            /\ UNCHANGED failures
    /\ UNCHANGED <<orch, config, dataPart, marker, target, msgbox, reboot,
                   sess, result>>

\* lines 314-320 and 338-342: the imaging call returns; its failure is
\* printed; the step is reported complete either way
DIR_ApplyReturn ==
    /\ orch = "DIR" /\ pc = "apply_wait"
    /\ engine' = [engine EXCEPT !.st = "closed"]
    /\ \E ok \in BOOLEAN :
         IF ok THEN UNCHANGED failures ELSE Fail("apply")
    /\ Send(<<MDism(3, "apply", 100)>>)
    /\ pc' = "import"
    /\ UNCHANGED <<orch, config, dataPart, marker, target, calls, progChan,
                   relay, msgbox, reboot, sess, result>>

\* lines 347-368: Step 4, import the exported drivers
DIR_Import ==
    /\ orch = "DIR" /\ pc = "import"
    /\ \E exists \in BOOLEAN :
         IF config.restore_drivers /\ exists
         THEN /\ Call(<<"import_drivers", target>>)
              /\ \E ok \in BOOLEAN :
                   IF ok THEN UNCHANGED failures ELSE Fail("drivers")
              /\ Send(<<MDism(4, "import", 0), MDism(4, "import", 30),
                        MDism(4, "import", 100)>>)
         ELSE /\ Send(<<MDism(4, "import", 0), MDism(4, "import", 100)>>)
              /\ UNCHANGED <<calls, failures>>
    /\ pc' = "boot"
    /\ UNCHANGED <<orch, config, dataPart, marker, target, progChan, engine,
                   relay, msgbox, reboot, sess, result>>

\* lines 372-396: Step 5, repair the boot configuration if requested; a
\* failure is printed
DIR_Boot ==
    /\ orch = "DIR" /\ pc = "boot"
    /\ IF config.repair_boot
       THEN /\ Call(<<"repair_boot", target>>)
            /\ \E ok \in BOOLEAN :
                 IF ok THEN UNCHANGED failures ELSE Fail("repair_boot")
            /\ Send(<<MDism(5, "boot", 0), MDism(5, "boot", 20),
                      MDism(5, "boot", 50), MDism(5, "boot", 100)>>)
       ELSE /\ Send(<<MDism(5, "boot", 0), MDism(5, "boot", 100)>>)
            /\ UNCHANGED <<calls, failures>>
    /\ pc' = "adv"
    /\ UNCHANGED <<orch, config, dataPart, marker, target, progChan, engine,
                   relay, msgbox, reboot, sess, result>>

\* lines 400-418: Step 6, advanced options and the answer file
DIR_Adv ==
    /\ orch = "DIR" /\ pc = "adv"
    /\ \E advOk \in BOOLEAN :
         IF config.unattended
         THEN /\ calls' = calls \o << <<"apply_advanced_options", target>>,
                                     <<"generate_unattend_xml", target>> >>
              /\ \E unaOk \in BOOLEAN :
                   failures' = failures
                       \cup (IF advOk THEN {} ELSE {"advanced_options"})
                       \cup (IF unaOk THEN {} ELSE {"unattend"})
         ELSE /\ Call(<<"apply_advanced_options", target>>)
              /\ IF advOk THEN UNCHANGED failures ELSE Fail("advanced_options")
    /\ Send(<<MDism(6, "advanced", 0), MDism(6, "advanced", 20),
              MDism(6, "advanced", 50), MDism(6, "advanced", 100)>>)
    /\ pc' = "complete"
    /\ UNCHANGED <<orch, config, dataPart, marker, target, progChan, engine,
                   relay, msgbox, reboot, sess, result>>

\* line 422: Step 7, the thread ends
DIR_Complete ==
    /\ orch = "DIR" /\ pc = "complete"
    /\ Send(<<MDism(7, "complete", 100)>>)
    /\ pc' = "done"
    /\ UNCHANGED <<orch, config, dataPart, marker, target, calls, failures,
                   progChan, engine, relay, msgbox, reboot, sess, result>>

-----------------------------------------------------------------------------
(* VIAPE: 正常系统端 install_progress.rs start_pe_install_thread            *)

\* lines 429-480: the options are captured, the thread starts; Step 1 checks
\* the selected PE; a missing selection or file ends the thread
VIAPE_Start ==
    /\ orch = "VIAPE" /\ pc = "start"
    /\ \E tp \in Letters, drv, una, arb, gho \in BOOLEAN :
         /\ config' = [DefaultConfig EXCEPT
                         !.target_partition = tp, !.restore_drivers = drv,
                         !.unattended = una, !.auto_reboot = arb,
                         !.is_gho = gho]
         /\ target' = tp
    /\ \E selected, peExists \in BOOLEAN :
         IF ~selected
         THEN /\ Send(<<MDism(1, "check_pe", 0), MDism(1, "check_pe", 100)>>)
              /\ Fail("no_pe_selected")
              /\ pc' = "done"
              /\ UNCHANGED calls
         ELSE IF ~peExists
         THEN /\ Call(<<"check_pe_exists">>)
              /\ Send(<<MDism(1, "check_pe", 0), MDism(1, "check_pe", 50),
                        MDism(1, "check_pe", 100)>>)
              /\ Fail("pe_missing")
              /\ pc' = "done"
         ELSE /\ Call(<<"check_pe_exists">>)
              /\ Send(<<MDism(1, "check_pe", 0), MDism(1, "check_pe", 50),
                        MDism(1, "check_pe", 100)>>)
              /\ UNCHANGED failures
              /\ pc' = "boot_pe"
    /\ UNCHANGED <<orch, dataPart, marker, progChan, engine, relay,
                   msgbox, reboot, sess, result>>

\* lines 482-499: Step 2, install the PE boot entry; a failure ends the
\* thread
VIAPE_BootPE ==
    /\ orch = "VIAPE" /\ pc = "boot_pe"
    /\ Call(<<"boot_to_pe">>)
    /\ Send(<<MDism(2, "boot_pe", 0), MDism(2, "boot_pe", 30),
              MDism(2, "boot_pe", 100)>>)
    /\ \E ok \in BOOLEAN :
         IF ok
         THEN /\ UNCHANGED failures
              /\ pc' = "export"
         ELSE /\ Fail("boot_to_pe")
              /\ pc' = "done"
    /\ UNCHANGED <<orch, config, dataPart, marker, target, progChan, engine,
                   relay, msgbox, reboot, sess, result>>

\* lines 501-521: Step 3, choose the data partition and export the drivers
VIAPE_Export ==
    /\ orch = "VIAPE" /\ pc = "export"
    /\ \E present \in SUBSET Letters :
         dataPart' = FindDataPartitionExcl(target, present)
    /\ IF config.restore_drivers
       THEN /\ Call(<<"export_drivers">>)
            /\ \E ok \in BOOLEAN :
                 IF ok THEN UNCHANGED failures ELSE Fail("export_drivers")
            /\ Send(<<MDism(3, "export", 0), MDism(3, "export", 30),
                      MDism(3, "export", 100)>>)
       ELSE /\ Send(<<MDism(3, "export", 0), MDism(3, "export", 100)>>)
            /\ UNCHANGED <<calls, failures>>
    /\ pc' = "copy"
    /\ UNCHANGED <<orch, config, marker, target, progChan, engine, relay,
                   msgbox, reboot, sess, result>>

\* a Step 4 that exports the drivers after the copy
VIAPE_Copy_ThenExport ==
    /\ orch = "VIAPE" /\ pc = "copy"
    /\ calls' = calls \o << <<"copy_image", dataPart>>, <<"export_drivers">> >>
    /\ Send(<<MDism(4, "copy", 0), MDism(4, "copy", 20),
              MDism(4, "copy", 100)>>)
    /\ pc' = "write_config"
    /\ UNCHANGED <<orch, config, dataPart, marker, target, failures,
                   progChan, engine, relay, msgbox, reboot, sess, result>>

\* lines 523-546: Step 4, copy the image to the data partition; a failure
\* ends the thread
VIAPE_Copy ==
    /\ orch = "VIAPE" /\ pc = "copy"
    /\ Call(<<"copy_image", dataPart>>)
    /\ Send(<<MDism(4, "copy", 0), MDism(4, "copy", 20),
              MDism(4, "copy", 100)>>)
    /\ \E ok \in BOOLEAN :
         IF ok
         THEN /\ UNCHANGED failures
              /\ pc' = "write_config"
         ELSE /\ Fail("copy_image")
              /\ pc' = "done"
    /\ UNCHANGED <<orch, config, dataPart, marker, target, progChan, engine,
                   relay, msgbox, reboot, sess, result>>

\* lines 548-588: Step 5, write the job record and the markers; a failure
\* is printed and the thread goes on
VIAPE_WriteConfig ==
    /\ orch = "VIAPE" /\ pc = "write_config"
    /\ Call(<<"write_install_config", target, dataPart>>)
    /\ \E ok \in BOOLEAN :
         IF ok THEN UNCHANGED failures ELSE Fail("write_config")
    /\ Send(<<MDism(5, "write_config", 0), MDism(5, "write_config", 100)>>)
    /\ pc' = "ready"
    /\ UNCHANGED <<orch, config, dataPart, marker, target, progChan, engine,
                   relay, msgbox, reboot, sess, result>>

\* lines 590-593: Step 6, ready for the restart
VIAPE_Ready ==
    /\ orch = "VIAPE" /\ pc = "ready"
    /\ Send(<<MDism(6, "ready_to_reboot", 100)>>)
    /\ pc' = "done"
    /\ UNCHANGED <<orch, config, dataPart, marker, target, calls, failures,
                   progChan, engine, relay, msgbox, reboot, sess, result>>

-----------------------------------------------------------------------------
(* The offline registry session: apply_advanced_options (PE端) and          *)
(* AdvancedOptions::apply_to_system (正常系统端), checked as functions: the   *)
(* options and the outcome of every hive and file operation are inputs.    *)
(* sess.mounted is the set of hives mounted under HKLM; sess.pending is    *)
(* the set of hives loaded by the session for which no unload has been     *)
(* attempted since.                                                        *)

Hives == {"pc-soft", "pc-sys", "pc-default"}

\* OfflineRegistry::load_hive: `reg load`; ok is the command's outcome
load_hive(s, h, ok) ==
    IF ok /\ h \notin s.mounted
    THEN [s EXCEPT !.mounted = @ \cup {h}, !.pending = @ \cup {h}]
    ELSE s

\* registry.rs line 30: `for attempt in 0..5`
UnloadRetries == 5

\* what one `reg.exe unload` can do: exit with success, exit with failure,
\* or fail to start (`.output()?` then returns the error at once)
AttemptOutcomes == {"ok", "fail", "spawn_err"}

\* an unload_hive that makes one attempt and returns its result
unload_attempts_Once(outs, attempt) ==
    [trace |-> <<"reg_unload">>,
     ret   |-> IF outs[attempt + 1] = "ok" THEN "ok" ELSE "err"]

\* OfflineRegistry::unload_hive run on the outcomes outs[1..6] of its
\* attempts, from loop index `attempt` (0-based) on: the commands it runs
\* and the sleeps it makes, in order, and the result it returns
RECURSIVE unload_attempts(_, _)
unload_attempts(outs, attempt) ==
    IF attempt < UnloadRetries
    THEN CASE outs[attempt + 1] = "spawn_err" ->
                 [trace |-> <<"reg_unload">>, ret |-> "err"]
           [] outs[attempt + 1] = "ok" ->
                 [trace |-> <<"reg_unload">>, ret |-> "ok"]
           [] OTHER ->
                 LET r == unload_attempts(outs, attempt + 1)
                 IN  [trace |-> <<"reg_unload", "sleep">> \o r.trace,
                      ret   |-> r.ret]
    ELSE [trace |-> <<"reg_unload">>,
          ret   |-> IF outs[UnloadRetries + 1] = "ok" THEN "ok" ELSE "err"]

\* number of `reg unload` commands in a trace
Tries(trace) == Len(SelectSeq(trace, LAMBDA e : e = "reg_unload"))

\* OfflineRegistry::unload_hive on the session state: the hive is unmounted
\* when the call returns Ok; s.unl[h] keeps how the last unload of h went
unload_hive(s, h, outs) ==
    LET r == unload_attempts(outs, 0) IN
    [s EXCEPT !.mounted = IF r.ret = "ok" THEN @ \ {h} ELSE @,
              !.pending = @ \ {h},
              !.unl[h]  = [outs |-> outs, tries |-> Tries(r.trace),
                           ret |-> r.ret]]

\* unload pc-soft, pc-sys and, if it was loaded, pc-default; results are
\* discarded
UnloadAll(s, outs) ==
    LET s1 == unload_hive(s, "pc-soft", outs["pc-soft"])
        s2 == unload_hive(s1, "pc-sys", outs["pc-sys"])
    IN  IF s.default_loaded
        THEN unload_hive(s2, "pc-default", outs["pc-default"])
        ELSE s2

\* the function returns r; exit keeps the place it returned from
SessReturn(s, r) == [s EXCEPT !.pc = "returned", !.ret = r, !.exit = s.pc]

NoUnload == [outs |-> <<>>, tries |-> 0, ret |-> None]

\* no registry session: the function has not been entered
NoSession ==
    [fn |-> None, pc |-> "idle", mounted |-> {}, pending |-> {},
     default_loaded |-> FALSE, opts |-> {}, ret |-> None, exit |-> None,
     flags_done |-> FALSE, attempted |-> {}, muts |-> {}, mfailed |-> {},
     unl |-> [h \in Hives |-> NoUnload]]

NewSession(fn, opts) ==
    [NoSession EXCEPT !.fn = fn, !.pc = "load_soft", !.opts = opts]

\* the flags that are registry mutations (items 1-8 of both functions) and
\* the hives each of them writes to
RegFlags ==
    {"remove_shortcut_arrow", "restore_classic_context_menu", "bypass_nro",
     "disable_windows_update", "disable_windows_defender",
     "disable_reserved_storage", "disable_uac", "disable_device_encryption"}

FlagHives(f) ==
    CASE f = "restore_classic_context_menu" -> {"pc-default", "pc-soft"}
      [] f \in {"disable_windows_update", "disable_windows_defender",
                "disable_device_encryption"} -> {"pc-sys", "pc-soft"}
      [] OTHER -> {"pc-soft"}

AO_Options ==
    RegFlags \cup {"remove_uwp_apps", "import_storage_controller_drivers",
                   "custom_username"}

ATS_Options ==
    RegFlags \cup
    {"remove_uwp_apps", "run_script_during_deploy", "run_script_first_login",
     "import_custom_drivers", "import_storage_controller_drivers",
     "import_registry_file", "import_custom_files", "custom_username",
     "custom_volume_label"}

\* option sets with at most MaxOpts flags set
OptSets(S) == {o \in SUBSET S : Cardinality(o) <= MaxOpts}

\* the writes of items 1-8 for the flags that are set: the write to
\* pc-default is made only `if default_loaded`
FlagMutations(s) ==
    {m \in (s.opts \cap RegFlags) \X Hives :
        /\ m[2] \in FlagHives(m[1])
        /\ m[2] = "pc-default" => s.default_loaded}

\* items 1-8: every write is `let _ = ...`; bad is the set of flags whose
\* writes failed
ApplyFlags(s, bad) ==
    [s EXCEPT !.muts = FlagMutations(s),
              !.mfailed = {m \in FlagMutations(s) : m[1] \in bad},
              !.attempted = @ \cup (s.opts \cap RegFlags),
              !.flags_done = TRUE]

\* the block of flag f is entered
Attempt(s, f) == [s EXCEPT !.attempted = @ \cup {f}]

\* how one unload_hive call of a session goes, as the outcomes of its six
\* attempts: success at once, four failures then success, failure of every
\* attempt
UnloadProfiles ==
    { [i \in 1..(UnloadRetries + 1) |-> "ok"],
      [i \in 1..(UnloadRetries + 1) |-> IF i < UnloadRetries THEN "fail" ELSE "ok"],
      [i \in 1..(UnloadRetries + 1) |-> "fail"] }

\* the hives UnloadAll unloads in session state s
UnloadedHives(s) ==
    IF s.default_loaded THEN Hives ELSE Hives \ {"pc-default"}

\* the outcomes of one UnloadAll: a profile for each hive it unloads
UnloadInputs(s) == [UnloadedHives(s) -> UnloadProfiles]

\* the hives loaded again after a driver import
ReloadedHives(s, reloadDefault) ==
    IF reloadDefault THEN UnloadedHives(s) ELSE {"pc-soft", "pc-sys"}

\* unload the hives, import the drivers, load the hives again; pc-default
\* is loaded again only where reloadDefault says so
AroundDriverImport(s, un, re, reloadDefault) ==
    LET u  == UnloadAll(s, un)
        r1 == load_hive(u, "pc-soft", re["pc-soft"])
        r2 == load_hive(r1, "pc-sys", re["pc-sys"])
    IN  IF reloadDefault /\ s.default_loaded
        THEN load_hive(r2, "pc-default", re["pc-default"])
        ELSE r2

InAO(p) == sess.fn = "apply_advanced_options" /\ sess.pc = p

\* PE端 advanced_options.rs line 23: `load_hive("pc-soft")?`
AO_LoadSoft ==
    /\ InAO("load_soft")
    /\ \E ok \in BOOLEAN :
         sess' = IF ok
                 THEN [load_hive(sess, "pc-soft", TRUE) EXCEPT !.pc = "load_sys"]
                 ELSE SessReturn(sess, "err")
    /\ UNCHANGED wfVars

\* line 24: `load_hive("pc-sys")?`
AO_LoadSys ==
    /\ InAO("load_sys")
    /\ \E ok \in BOOLEAN :
         sess' = IF ok
                 THEN [load_hive(sess, "pc-sys", TRUE) EXCEPT !.pc = "load_default"]
                 ELSE SessReturn(sess, "err")
    /\ UNCHANGED wfVars

\* a DEFAULT hive load whose failure is returned to the caller
LoadDefault_Required(s, ok) ==
    IF ok
    THEN [load_hive(s, "pc-default", ok) EXCEPT
             !.default_loaded = TRUE, !.pc = "scripts_dir"]
    ELSE SessReturn(s, "err")

\* the DEFAULT hive is optional: `.is_ok()`
LoadDefault(s, ok) ==
    [load_hive(s, "pc-default", ok) EXCEPT
        !.default_loaded = ok, !.pc = "scripts_dir"]

\* lines 26-31
AO_LoadDefault ==
    /\ InAO("load_default")
    /\ \E ok \in BOOLEAN : sess' = LoadDefault(sess, ok)
    /\ UNCHANGED wfVars

\* lines 33-36: `create_dir_all(scripts_dir)?`
AO_ScriptsDir ==
    /\ InAO("scripts_dir")
    /\ \E ok \in BOOLEAN :
         sess' = IF ok THEN [sess EXCEPT !.pc = "flags"]
                 ELSE SessReturn(sess, "err")
    /\ UNCHANGED wfVars

\* lines 38-197: the registry mutations; every result is discarded
AO_Flags ==
    /\ InAO("flags")
    /\ \E bad \in SUBSET (sess.opts \cap RegFlags) :
         sess' = [ApplyFlags(sess, bad) EXCEPT !.pc = "uwp"]
    /\ UNCHANGED wfVars

\* a failed write of `path` for flag f returns the error (`fs::write(..)?`)
WriteOrReturn(s, f, ok, next) ==
    IF f \in s.opts
    THEN IF ok THEN [Attempt(s, f) EXCEPT !.pc = next]
         ELSE SessReturn(Attempt(s, f), "err")
    ELSE [s EXCEPT !.pc = next]

\* lines 199-207: `fs::write(remove_uwp.ps1)?`
AO_Uwp ==
    /\ InAO("uwp")
    /\ \E ok \in BOOLEAN :
         sess' = WriteOrReturn(sess, "remove_uwp_apps", ok, "storage")
    /\ UNCHANGED wfVars

\* lines 209-247: the hives are unmounted around the driver import and
\* mounted again; every result is discarded
AO_StorageDrivers ==
    /\ InAO("storage")
    /\ \E dirExists \in BOOLEAN, un \in UnloadInputs(sess),
          re \in [ReloadedHives(sess, TRUE) -> BOOLEAN] :
         sess' =
           IF "import_storage_controller_drivers" \in sess.opts
           THEN LET s1 == Attempt(sess, "import_storage_controller_drivers")
                IN  IF dirExists
                    THEN [AroundDriverImport(s1, un, re, TRUE)
                            EXCEPT !.pc = "username"]
                    ELSE [s1 EXCEPT !.pc = "username"]
           ELSE [sess EXCEPT !.pc = "username"]
    /\ UNCHANGED wfVars

\* lines 249-254: `fs::write(username.txt)?`
AO_Username ==
    /\ InAO("username")
    /\ \E ok \in BOOLEAN :
         sess' = WriteOrReturn(sess, "custom_username", ok, "unload")
    /\ UNCHANGED wfVars

\* a final unload whose failure is returned to the caller
AO_FinalUnload_Strict ==
    /\ InAO("unload")
    /\ \E un \in UnloadInputs(sess) :
         LET s1 == UnloadAll(sess, un)
         IN  sess' = SessReturn(s1,
                        IF \E h \in UnloadedHives(sess) : s1.unl[h].ret = "err"
                        THEN "err" ELSE "ok")
    /\ UNCHANGED wfVars

\* lines 256-266: the final unload, then Ok
AO_FinalUnload ==
    /\ InAO("unload")
    /\ \E un \in UnloadInputs(sess) :
         sess' = SessReturn(UnloadAll(sess, un), "ok")
    /\ UNCHANGED wfVars

InATS(p) == sess.fn = "apply_to_system" /\ sess.pc = p

\* 正常系统端 advanced_options.rs line 60: `load_hive("pc-soft")?`
ATS_LoadSoft ==
    /\ InATS("load_soft")
    /\ \E ok \in BOOLEAN :
         sess' = IF ok
                 THEN [load_hive(sess, "pc-soft", TRUE) EXCEPT !.pc = "load_sys"]
                 ELSE SessReturn(sess, "err")
    /\ UNCHANGED wfVars

\* line 61: `load_hive("pc-sys")?`
ATS_LoadSys ==
    /\ InATS("load_sys")
    /\ \E ok \in BOOLEAN :
         sess' = IF ok
                 THEN [load_hive(sess, "pc-sys", TRUE) EXCEPT !.pc = "load_default"]
                 ELSE SessReturn(sess, "err")
    /\ UNCHANGED wfVars

\* line 63: the DEFAULT hive is optional
ATS_LoadDefault ==
    /\ InATS("load_default")
    /\ \E ok \in BOOLEAN : sess' = LoadDefault(sess, ok)
    /\ UNCHANGED wfVars

\* lines 65-67: `create_dir_all(scripts_dir)?`
ATS_ScriptsDir ==
    /\ InATS("scripts_dir")
    /\ \E ok \in BOOLEAN :
         sess' = IF ok THEN [sess EXCEPT !.pc = "flags"]
                 ELSE SessReturn(sess, "err")
    /\ UNCHANGED wfVars

\* lines 69-226: the registry mutations; every result is discarded
ATS_Flags ==
    /\ InATS("flags")
    /\ \E bad \in SUBSET (sess.opts \cap RegFlags) :
         sess' = [ApplyFlags(sess, bad) EXCEPT !.pc = "uwp"]
    /\ UNCHANGED wfVars

\* lines 227-235: `fs::write(remove_uwp.ps1)?`
ATS_Uwp ==
    /\ InATS("uwp")
    /\ \E ok \in BOOLEAN :
         sess' = WriteOrReturn(sess, "remove_uwp_apps", ok, "scripts")
    /\ UNCHANGED wfVars

\* lines 239-253: `fs::copy(deploy script)?`, `fs::copy(first-login script)?`
ATS_Scripts ==
    /\ InATS("scripts")
    /\ \E okDeploy, okLogin \in BOOLEAN :
         LET s1 == WriteOrReturn(sess, "run_script_during_deploy", okDeploy,
                                 "scripts")
         IN  sess' = IF s1.pc = "returned" THEN s1
                     ELSE WriteOrReturn(s1, "run_script_first_login", okLogin,
                                        "custom_drivers")
    /\ UNCHANGED wfVars

\* lines 257-279: the hives are unmounted around the driver import; only
\* pc-soft and pc-sys are mounted again
ATS_CustomDrivers ==
    /\ InATS("custom_drivers")
    /\ \E un \in UnloadInputs(sess),
          re \in [ReloadedHives(sess, FALSE) -> BOOLEAN] :
         sess' =
           IF "import_custom_drivers" \in sess.opts
           THEN [AroundDriverImport(Attempt(sess, "import_custom_drivers"),
                                    un, re, FALSE)
                   EXCEPT !.pc = "storage"]
           ELSE [sess EXCEPT !.pc = "storage"]
    /\ UNCHANGED wfVars

\* lines 281-316: the same around the storage controller driver import
ATS_StorageDrivers ==
    /\ InATS("storage")
    /\ \E dirExists \in BOOLEAN, un \in UnloadInputs(sess),
          re \in [ReloadedHives(sess, FALSE) -> BOOLEAN] :
         sess' =
           IF "import_storage_controller_drivers" \in sess.opts
           THEN LET s1 == Attempt(sess, "import_storage_controller_drivers")
                IN  IF dirExists
                    THEN [AroundDriverImport(s1, un, re, FALSE)
                            EXCEPT !.pc = "reg_file"]
                    ELSE [s1 EXCEPT !.pc = "reg_file"]
           ELSE [sess EXCEPT !.pc = "reg_file"]
    /\ UNCHANGED wfVars

\* lines 318-350: `fs::write(temp_import.reg)?` when the .reg file could be
\* read; the import and the custom file copy only print their failures
ATS_Import ==
    /\ InATS("reg_file")
    /\ \E readable, ok \in BOOLEAN :
         LET s1 == IF readable
                   THEN WriteOrReturn(sess, "import_registry_file", ok,
                                      "reg_file")
                   ELSE IF "import_registry_file" \in sess.opts
                        THEN Attempt(sess, "import_registry_file")
                        ELSE sess
         IN  sess' = IF s1.pc = "returned" THEN s1
                     ELSE IF "import_custom_files" \in sess.opts
                     THEN [Attempt(s1, "import_custom_files")
                             EXCEPT !.pc = "username"]
                     ELSE [s1 EXCEPT !.pc = "username"]
    /\ UNCHANGED wfVars

\* lines 352-364: `fs::write(username.txt)?`, `fs::write(volume_label.txt)?`
ATS_Username ==
    /\ InATS("username")
    /\ \E okName, okLabel \in BOOLEAN :
         LET s1 == WriteOrReturn(sess, "custom_username", okName, "username")
         IN  sess' = IF s1.pc = "returned" THEN s1
                     ELSE WriteOrReturn(s1, "custom_volume_label", okLabel,
                                        "unload")
    /\ UNCHANGED wfVars

\* lines 366-375: the final unload, then Ok
ATS_FinalUnload ==
    /\ InATS("unload")
    /\ \E un \in UnloadInputs(sess) :
         sess' = SessReturn(UnloadAll(sess, un), "ok")
    /\ UNCHANGED wfVars

\* OfflineRegistry::unload_hive on its own, called with the outcomes
\* sess.outs of its attempts
UH_Call ==
    /\ sess.fn = "unload_hive" /\ sess.pc = "call"
    /\ LET r == unload_attempts(sess.outs, 0)
       IN  sess' = [sess EXCEPT !.pc = "returned", !.trace = r.trace,
                                !.ret = r.ret]
    /\ UNCHANGED wfVars

-----------------------------------------------------------------------------
Orchs == {"PEI", "PEB", "CLII", "CLIB", "NPI", "NPB", "DIR", "VIAPE"}

Init ==
    /\ orch \in Orchs
    /\ pc = "start"
    /\ config = DefaultConfig
    /\ dataPart = None
    /\ marker = None
    /\ target = None
    /\ calls = <<>>
    /\ failures = {}
    /\ uiChan = <<>>
    /\ progChan = <<>>
    /\ engine = IdleEngine
    /\ relay = "none"
    /\ msgbox = <<>>
    /\ reboot = FALSE
    /\ sess = NoSession
    /\ result = <<>>

Next ==
    \/ EngineEmit \/ RelayForward \/ RelayExit
    \/ PEI_Start \/ PEI_Format \/ PEI_ApplyEnter \/ PEI_ApplyCall
    \/ PEI_ApplyReturn \/ PEI_DriversEnter \/ PEI_DriversDo
    \/ PEI_BootEnter \/ PEI_BootDo \/ PEI_AdvEnter \/ PEI_AdvDo
    \/ PEI_UnattendEnter \/ PEI_UnattendDo \/ PEI_CleanupEnter
    \/ PEI_CleanupDo \/ PEI_Complete \/ PEI_Reboot
    \/ PEB_Start \/ PEB_CaptureEnter \/ PEB_CaptureCall \/ PEB_CaptureReturn
    \/ PEB_VerifyEnter \/ PEB_VerifyDo \/ PEB_BootEnter \/ PEB_BootDo
    \/ PEB_CleanupEnter \/ PEB_CleanupDo \/ PEB_Complete \/ PEB_Reboot
    \/ CLII_Start \/ CLII_Format \/ CLII_Apply \/ CLII_Drivers \/ CLII_Boot
    \/ CLII_Adv \/ CLII_Unattend \/ CLII_Finish
    \/ CLIB_Start \/ CLIB_Capture \/ CLIB_Boot \/ CLIB_Finish
    \/ NPI_Start \/ NPI_Format \/ NPI_Apply \/ NPI_Drivers \/ NPI_Boot
    \/ NPI_Adv \/ NPI_Unattend \/ NPI_Cleanup \/ NPI_Return
    \/ NPB_Start \/ NPB_Capture \/ NPB_Return
    \/ DIR_Start \/ DIR_Format \/ DIR_Export \/ DIR_ApplyEnter
    \/ DIR_ApplyReturn \/ DIR_Import \/ DIR_Boot \/ DIR_Adv \/ DIR_Complete
    \/ VIAPE_Start \/ VIAPE_BootPE \/ VIAPE_Export \/ VIAPE_Copy
    \/ VIAPE_WriteConfig \/ VIAPE_Ready

Spec == Init /\ [][Next]_vars

\* execute_install_workflow about to call apply_advanced_options: the
\* state PEI reaches with the default job record, no engine progress and
\* every step successful
PEI_AtAdvancedOptions ==
    /\ orch = "PEI"
    /\ pc = "adv_do"
    /\ config = DefaultConfig
    /\ dataPart = "D:"
    /\ marker = None
    /\ target = "C:"
    /\ calls = << <<"format", "C:">>, <<"apply_image", "C:">>,
                  <<"repair_boot", "C:">> >>
    /\ failures = {}
    /\ uiChan = << MStatus("data_partition"),
                   MStep("FormatPartition"), MStatus("formatting"),
                   MProgress(100),
                   MStep("ApplyImage"), MStatus("applying"), MProgress(100),
                   MStep("ImportDrivers"), MStatus("skip_drivers"),
                   MProgress(100),
                   MStep("RepairBoot"), MStatus("repairing_boot"),
                   MProgress(100),
                   MStep("ApplyAdvancedOptions"), MStatus("advanced_options") >>
    /\ progChan = <<>>
    /\ engine = [Running(PEDismOp("apply_image")) EXCEPT !.st = "closed"]
    /\ relay = "done"
    /\ msgbox = <<>>
    /\ reboot = FALSE
    /\ result = <<>>

\* execute_pe_install about to call apply_to_system, likewise
NPI_AtAdvancedOptions ==
    /\ orch = "NPI"
    /\ pc = "adv"
    /\ config = DefaultConfig
    /\ dataPart = "D:"
    /\ marker = None
    /\ target = "C:"
    /\ calls = << <<"format", "C:">>, <<"apply_image", "C:">>,
                  <<"repair_boot", "C:">> >>
    /\ failures = {}
    /\ uiChan = <<>>
    /\ progChan = <<>>
    /\ engine = IdleEngine
    /\ relay = "none"
    /\ msgbox = <<>>
    /\ reboot = FALSE
    /\ result = <<>>

\* The registry session inside its workflow: the workflow stands at the
\* advanced-options call, the function is entered with any set of at most
\* MaxOpts options, and the workflow goes on when it has returned.
InitReg ==
    \/ /\ PEI_AtAdvancedOptions
       /\ sess \in {NewSession("apply_advanced_options", o) :
                       o \in OptSets(AO_Options)}
    \/ /\ NPI_AtAdvancedOptions
       /\ sess \in {NewSession("apply_to_system", o) :
                       o \in OptSets(ATS_Options)}

NextReg ==
    \/ AO_LoadSoft \/ AO_LoadSys \/ AO_LoadDefault \/ AO_ScriptsDir
    \/ AO_Flags \/ AO_Uwp \/ AO_StorageDrivers \/ AO_Username
    \/ AO_FinalUnload
    \/ ATS_LoadSoft \/ ATS_LoadSys \/ ATS_LoadDefault \/ ATS_ScriptsDir
    \/ ATS_Flags \/ ATS_Uwp \/ ATS_Scripts \/ ATS_CustomDrivers
    \/ ATS_StorageDrivers \/ ATS_Import \/ ATS_Username \/ ATS_FinalUnload
    \/ PEI_AdvDo \/ PEI_UnattendEnter \/ PEI_UnattendDo \/ PEI_CleanupEnter
    \/ PEI_CleanupDo \/ PEI_Complete \/ PEI_Reboot
    \/ NPI_Adv \/ NPI_Unattend \/ NPI_Cleanup \/ NPI_Return

SpecReg == InitReg /\ [][NextReg]_vars

\* OfflineRegistry::unload_hive on its own: it is called with any outcomes
\* of its six attempts.
InitUnload ==
    /\ orch = "unload_hive"
    /\ pc = "call"
    /\ config = DefaultConfig
    /\ dataPart = None
    /\ marker = None
    /\ target = None
    /\ calls = <<>>
    /\ failures = {}
    /\ uiChan = <<>>
    /\ progChan = <<>>
    /\ engine = IdleEngine
    /\ relay = "none"
    /\ msgbox = <<>>
    /\ reboot = FALSE
    /\ result = <<>>
    /\ sess \in {[fn |-> "unload_hive", pc |-> "call", outs |-> o,
                  trace |-> <<>>, ret |-> None] :
                    o \in [1..(UnloadRetries + 1) -> AttemptOutcomes]}

NextUnload == UH_Call

SpecUnload == InitUnload /\ [][NextUnload]_vars

-----------------------------------------------------------------------------
(* The normal-system install panel: update_install_progress folded over    *)
(* the channel.                                                            *)

InstallMode == IF orch = "VIAPE" THEN "ViaPE" ELSE "Direct"

\* install_progress.rs 238-239 / 448-449 and app.rs 541: the panel when the
\* thread has just been started
InstallUIInit(mode) ==
    [install_step   |-> 1,
     current_step   |-> IF mode = "Direct" THEN "format" ELSE "check_pe",
     step_progress  |-> 0,
     total_progress |-> 0,
     install_error  |-> None]

BaseProgress(mode, step) ==
    IF mode = "Direct"
    THEN CASE step = 1 -> 0  [] step = 2 -> 5  [] step = 3 -> 10
           [] step = 4 -> 90 [] step = 5 -> 93 [] step = 6 -> 96
           [] step = 7 -> 100 [] OTHER -> 0
    ELSE CASE step = 1 -> 0  [] step = 2 -> 10 [] step = 3 -> 30
           [] step = 4 -> 50 [] step = 5 -> 90 [] step = 6 -> 100
           [] OTHER -> 0

StepWeight(mode, step) ==
    IF mode = "Direct" THEN (IF step = 3 THEN 80 ELSE 3)
    ELSE (IF step = 4 THEN 40 ELSE 10)

Min(a, b) == IF a < b THEN a ELSE b

\* one iteration of the try_recv loop: a message whose status is not a
\* step status is dropped; install_error is never assigned
update_install_progress(st, mode, m) ==
    LET ps == parse_step_from_status(m.arg) IN
    IF Len(ps) = 0 THEN st
    ELSE [st EXCEPT
            !.step_progress  = m.pct,
            !.install_step   = ps[1],
            !.current_step   = ps[2],
            !.total_progress =
                Min(BaseProgress(mode, ps[1])
                      + (m.pct * StepWeight(mode, ps[1])) \div 100, 100)]

RECURSIVE FoldInstallUI(_, _, _)
FoldInstallUI(st, mode, msgs) ==
    IF msgs = <<>> THEN st
    ELSE FoldInstallUI(update_install_progress(st, mode, Head(msgs)),
                       mode, Tail(msgs))

\* the panel once every message sent so far has been polled
InstallUI == FoldInstallUI(InstallUIInit(InstallMode), InstallMode, uiChan)

-----------------------------------------------------------------------------
(* Observers used by the properties.                                       *)

InstallOrchs == {"PEI", "CLII", "NPI", "DIR"}
BackupOrchs == {"PEB", "CLIB", "NPB"}
PostRebootOrchs == {"PEI", "PEB", "CLII", "CLIB", "NPI", "NPB"}
ChannelOrchs == {"PEI", "PEB", "DIR", "VIAPE"}

\* the fatal tier of the error taxonomy
FatalKinds ==
    {"no_data_partition", "read_config", "image_missing", "format", "apply",
     "capture"}

FatalFailed == failures \cap FatalKinds # {}

\* the workflow thread has returned and the relay has nothing left to send
Finished == pc = "done" /\ relay # "running"

CallNames == {calls[i][1] : i \in DOMAIN calls}

IsSubSeq(e, m) ==
    \E k \in 0..(Len(m) - Len(e)) : \A t \in 1..Len(e) : m[k + t] = e[t]

\* the component error behind a failure, empty when the failure is a
\* condition the orchestrator itself detects
FailureText(f) ==
    IF f \in {"read_config", "format", "apply", "capture", "repair_boot"}
    THEN Err(f) ELSE <<>>

\* the failure messages the operator can see: failed events applied to the
\* progress panel, error boxes, the install panel's error line
ShownFailures ==
    {uiChan[i].arg : i \in {j \in DOMAIN uiChan : uiChan[j].kind = "failed"}}
    \cup {msgbox[i].arg : i \in {j \in DOMAIN msgbox : msgbox[j].kind = "error"}}
    \cup (IF orch \in {"DIR", "VIAPE"} /\ InstallUI.install_error # None
          THEN {InstallUI.install_error} ELSE {})

-----------------------------------------------------------------------------
\* calls of the step sequence: the marker removal that run_pe_install and
\* run_pe_backup perform whatever the result is not counted as a step
StepCalls == SelectSeq(calls, LAMBDA c : c[1] # "cleanup_partition_markers")

(* C1: once a hard-failure step (format, apply or capture, missing job     *)
(* config, missing image file) has failed, no later step of the install or *)
(* backup sequence is executed: no further operation is invoked.           *)
C1_NoStepAfterHardFailure ==
    [][FatalFailed => StepCalls' = StepCalls]_vars

(* C2: every fatal-tier failure ends in a terminal user-visible failure    *)
(* state (message box or failed panel) carrying the original failure       *)
(* message; none is swallowed.                                             *)
C2_FatalFailureVisible ==
    Finished =>
        \A f \in failures \cap FatalKinds :
            \E m \in ShownFailures : IsSubSeq(FailureText(f), m)

(* C3: when boot repair fails during an install, the orchestrator still    *)
(* proceeds to the later steps (advanced options, answer file, cleanup).   *)
C3_BootFailureProceeds ==
    (orch \in InstallOrchs /\ pc = "done" /\ "repair_boot" \in failures)
        => "apply_advanced_options" \in CallNames

\* --- reading the UI-facing channel as a sequence of step events ---

IsStepChanged(m) == m.kind = "step"
IsProgress(m) == m.kind = "progress"
IsFailedEvent(m) == m.kind = "failed"

\* the DismProgress messages the install panel applies (those whose status
\* names a step), in channel order
PanelMsgs ==
    SelectSeq(uiChan, LAMBDA m : m.kind = "dism"
                                  /\ Len(parse_step_from_status(m.arg)) # 0)

PanelStep(m) == parse_step_from_status(m.arg)[1]

\* PE progress panel: between a step-changed event and the next one there
\* is a 100% progress event
ClosedBy100 ==
    \A i, j \in DOMAIN uiChan :
        (/\ i < j
         /\ IsStepChanged(uiChan[i]) /\ IsStepChanged(uiChan[j])
         /\ \A k \in (i+1)..(j-1) : ~IsStepChanged(uiChan[k]))
        => \E k \in (i+1)..(j-1) :
               IsProgress(uiChan[k]) /\ uiChan[k].pct = 100

\* install panel: the step named by the messages changes only after the
\* previous step reported 100%
PanelClosedBy100 ==
    \A i \in 1..(Len(PanelMsgs) - 1) :
        PanelStep(PanelMsgs[i]) # PanelStep(PanelMsgs[i+1])
            => PanelMsgs[i].pct = 100

\* the step failures the claim is about: the fatal tier, and the failures
\* on which start_pe_install_thread ends the sequence
HaltingKinds ==
    FatalKinds \cup {"no_pe_selected", "pe_missing", "boot_to_pe", "copy_image"}

\* a failed event was emitted and no step was started after it
FailedAndHalted ==
    \E i \in DOMAIN uiChan :
        /\ IsFailedEvent(uiChan[i])
        /\ \A j \in (i+1)..Len(uiChan) :
               ~IsStepChanged(uiChan[j]) /\ uiChan[j].kind # "dism"

(* C5: for every workflow step the events are a step-changed event, then   *)
(* progress events, then on success a 100% event before the next step's    *)
(* step-changed event; on failure a failed event is emitted and no further *)
(* step is started.                                                        *)
C5_StepEventOrder ==
    orch \in ChannelOrchs =>
        /\ ClosedBy100
        /\ PanelClosedBy100
        /\ (failures \cap HaltingKinds # {} => FailedAndHalted)

\* the event announcing the imaging step, sent before the imaging call
IsImagingAnnounce(m) ==
    /\ m.by = "wf"
    /\ \/ m.kind = "step" /\ m.arg[1] \in {"ApplyImage", "CaptureImage"}
       \/ m.kind = "dism" /\ m.arg = FormatStatus(3, "apply")

\* event i was sent by the workflow thread after the imaging call returned
SentAfterImaging(i) ==
    /\ uiChan[i].by = "wf"
    /\ uiChan[i].kind # "status"
    /\ \E a \in 1..(i-1) : IsImagingAnnounce(uiChan[a])

(* C6: the UI receives the events in the order the workflow produced them: *)
(* a relayed engine progress event is never received after an event the    *)
(* workflow thread sent later (the step's final 100%, a failed event, the  *)
(* next step's step-changed event).                                        *)
C6_RelayedInOrder ==
    \A i, j \in DOMAIN uiChan :
        (i < j /\ uiChan[j].by = "relay") => ~SentAfterImaging(i)

(* C7: within one step the percent values of the progress events on the    *)
(* UI-facing channel never decrease.                                       *)
C7_PercentMonotone ==
    /\ \A i, j \in DOMAIN uiChan :
         (/\ i < j
          /\ IsProgress(uiChan[i]) /\ IsProgress(uiChan[j])
          /\ \A k \in (i+1)..(j-1) : ~IsStepChanged(uiChan[k]))
         => uiChan[i].pct <= uiChan[j].pct
    /\ \A i, j \in DOMAIN PanelMsgs :
         (i < j /\ PanelStep(PanelMsgs[i]) = PanelStep(PanelMsgs[j]))
         => PanelMsgs[i].pct <= PanelMsgs[j].pct

(* C8: with no data-partition marker the post-reboot workflow fails at     *)
(* once with an operator-visible error: no data partition is guessed and   *)
(* no format, apply, capture or any other operation is performed.          *)
C8_NoDataPartitionFails ==
    (orch \in PostRebootOrchs /\ "no_data_partition" \in failures) =>
        /\ pc = "done"
        /\ dataPart = None /\ target = None
        /\ calls = <<>>
        /\ ShownFailures # {}

C8_Witness ==
    /\ orch \in PostRebootOrchs
    /\ "no_data_partition" \in failures
    /\ pc = "done"

\* the operations directed at the target (install) or source (backup)
PartitionOps ==
    {"format", "apply_image", "ghost_restore", "add_drivers_offline",
     "repair_boot", "apply_advanced_options", "generate_unattend_xml",
     "capture_image", "append_image", "cleanup_partition_markers"}

(* C9: after the reboot the workflow operates on the marker-tagged         *)
(* partition when one is found and on the letter recorded in the job       *)
(* record (target for install, source for backup) when none is found.      *)
C9_TargetResolution ==
    orch \in PostRebootOrchs =>
        \A i \in DOMAIN calls :
            LET used == IF calls[i][1] = "cleanup_all" THEN calls[i][3]
                        ELSE calls[i][2]
            IN  (calls[i][1] \in PartitionOps \cup {"cleanup_all"}) =>
                    used = (IF marker # None THEN marker
                            ELSE config.target_partition)

C9_Witness ==
    /\ orch \in PostRebootOrchs
    /\ marker = None
    /\ \E i \in DOMAIN calls :
         /\ calls[i][1] \in {"format", "capture_image", "append_image"}
         /\ calls[i][2] = config.target_partition

ImagingCalls ==
    SelectSeq(calls, LAMBDA c : c[1] \in {"append_image", "capture_image"})

C4_HivesUnloadedOnReturn ==
    sess.pc = "returned" => sess.pending = {}

-----------------------------------------------------------------------------
\* the soft tier of the error taxonomy
SoftKinds == {"drivers", "advanced_options", "unattend", "delete_boot_entry"}

HasBox(k) == \E i \in DOMAIN msgbox : msgbox[i].kind = k

\* the workflow reported completion: the Completed event (PE progress
\* panel), the restart or the success box (command-line modes), the final
\* STEP:7 message (direct install)
ReportedComplete ==
    CASE orch \in {"PEI", "PEB"} ->
            \E i \in DOMAIN uiChan : uiChan[i].kind = "completed"
      [] orch \in {"CLII", "CLIB"} -> reboot \/ HasBox("success")
      [] orch \in {"NPI", "NPB"} ->
            result = <<"ok">> /\ (reboot \/ HasBox("success"))
      [] orch = "DIR" ->
            \E i \in DOMAIN uiChan : uiChan[i].arg = FormatStatus(7, "complete")
      [] OTHER -> FALSE

\* the last operation of each sequence
FinalStepCall ==
    CASE orch \in {"PEI", "CLII"} -> "cleanup_all"
      [] orch = "NPI" -> "cleanup_data_dir"
      [] orch \in {"PEB", "CLIB"} -> "cleanup_pe_dir"
      [] orch = "DIR" -> "apply_advanced_options"
      [] OTHER -> None

(* C11: a failure of driver import, advanced options, answer-file          *)
(* generation or boot-entry deletion never aborts the workflow: the step   *)
(* in which it occurs does not end the sequence, and a workflow in which   *)
(* only such failures occurred runs to its last step and reports           *)
(* completion.                                                             *)
C11_SoftFailureContinues ==
    /\ [](( /\ orch \in InstallOrchs \cup BackupOrchs
            /\ pc = "done"
            /\ failures # {} /\ failures \subseteq SoftKinds)
          => (FinalStepCall \in CallNames /\ ReportedComplete))
    /\ [][(failures' # failures /\ failures' \ failures \subseteq SoftKinds)
            => pc' \notin {"done", "return"}]_vars

C11_Witness ==
    /\ orch \in {"PEI", "NPI", "PEB"}
    /\ pc = "done"
    /\ failures # {} /\ failures \subseteq SoftKinds
    /\ ReportedComplete

-----------------------------------------------------------------------------
(* The registry session and the unload retries.                            *)

\* the session ran to its final unload
ReachedFinalUnload == sess.pc = "returned" /\ sess.exit = "unload"

AllFail == [i \in 1..(UnloadRetries + 1) |-> "fail"]

\* every attempt of every unload of the final unload failed
FinalUnloadAllFailed ==
    /\ ReachedFinalUnload
    /\ \A h \in UnloadedHives(sess) : sess.unl[h].outs = AllFail

AttemptsMade == Tries(sess.trace)

\* attempt i (1-based) was made and did not succeed
AttemptFailed(i) == i <= AttemptsMade /\ sess.outs[i] # "ok"

(* C13: hive unload is retried up to five times with a fixed backoff and   *)
(* then attempted exactly once more: every failed attempt among the first  *)
(* five is followed by a backoff and a further attempt, at most six        *)
(* attempts are made, and only the failure of the final (sixth) attempt is *)
(* returned to the caller.                                                 *)
C13_UnloadRetrySchedule ==
    (sess.fn = "unload_hive" /\ sess.pc = "returned") =>
        /\ AttemptsMade <= UnloadRetries + 1
        /\ \A i \in 1..UnloadRetries :
             AttemptFailed(i) =>
                 /\ AttemptsMade >= i + 1
                 /\ sess.trace[2 * i] = "sleep"
        /\ sess.ret = "err" =>
             (AttemptsMade = UnloadRetries + 1 /\ AttemptFailed(UnloadRetries + 1))


\* attempts 1-4 fail with an exit status, attempt 5 succeeds
FailsFourThenOk(outs) ==
    /\ outs # <<>>
    /\ \A i \in 1..(UnloadRetries - 1) : outs[i] = "fail"
    /\ outs[UnloadRetries] = "ok"

(* C14: when an unload fails on attempts 1 through 4 and succeeds on       *)
(* attempt 5, the unload reports success after exactly five attempts, the  *)
(* hive is unmounted, and the enclosing registry session returns Ok.       *)
C14_FifthAttemptSucceeds ==
    ReachedFinalUnload =>
        \A h \in UnloadedHives(sess) :
            FailsFourThenOk(sess.unl[h].outs) =>
                /\ sess.unl[h].ret = "ok"
                /\ sess.unl[h].tries = UnloadRetries
                /\ h \notin sess.mounted
                /\ sess.ret = "ok"

C14_Witness ==
    /\ ReachedFinalUnload
    /\ sess.default_loaded
    /\ \A h \in Hives : FailsFourThenOk(sess.unl[h].outs)
    /\ sess.mounted = {}
    /\ sess.ret = "ok"


\* the registry writes items 1-8 make to the SOFTWARE and SYSTEM hives for
\* the flags that are set
SoftSysMutations ==
    {m \in (sess.opts \cap RegFlags) \X {"pc-soft", "pc-sys"} :
        m[2] \in FlagHives(m[1])}

C16_EveryFlagAttempted ==
    ( /\ sess.fn \in {"apply_advanced_options", "apply_to_system"}
      /\ sess.pc = "returned"
      /\ sess.flags_done )
    => sess.opts \subseteq sess.attempted


-----------------------------------------------------------------------------
(* The order of the workflow steps.                                        *)

\* the place of an operation in the direct-mode install sequence: format,
\* apply image, import drivers, repair boot, advanced options, answer file,
\* cleanup; 0 for an operation that is none of them
InstallRank(name) ==
    CASE name = "format" -> 1
      [] name \in {"apply_image", "ghost_restore"} -> 2
      [] name \in {"add_drivers_offline", "import_drivers"} -> 3
      [] name = "repair_boot" -> 4
      [] name = "apply_advanced_options" -> 5
      [] name = "generate_unattend_xml" -> 6
      [] name \in {"cleanup_all", "cleanup_data_dir"} -> 7
      [] OTHER -> 0

\* the ranks of the step operations invoked so far, in order
RanksOf(rank(_)) == [i \in DOMAIN StepCalls |-> rank(StepCalls[i][1])]

Increasing(r) == \A i, j \in DOMAIN r : i < j => r[i] < r[j]

Range(r) == {r[i] : i \in DOMAIN r}

(* C17: a direct-mode install executes its steps in exactly this order:    *)
(* format target, apply image, import drivers (optional), repair boot,     *)
(* apply advanced options, generate answer file (optional), cleanup, mark  *)
(* complete, restart. Every operation invoked is one of these steps, they  *)
(* are invoked in this order, completion is reported only after the image *)
(* was applied, the advanced options were applied and the cleanup has run, *)
(* and a restart comes only after completion.                              *)
C17_DirectInstallOrder ==
    orch \in InstallOrchs =>
        LET r == RanksOf(InstallRank) IN
        /\ 0 \notin Range(r)
        /\ Increasing(r)
        /\ ReportedComplete => {2, 5, 7} \subseteq Range(r)
        /\ reboot => ReportedComplete


\* the place of an operation in phase 1 of a via-preboot install
PrebootRank(name) ==
    CASE name = "check_pe_exists" -> 1
      [] name = "boot_to_pe" -> 2
      [] name = "export_drivers" -> 3
      [] name = "copy_image" -> 4
      [] name = "write_install_config" -> 5
      [] OTHER -> 0

ReadyForReboot ==
    \E i \in DOMAIN uiChan : uiChan[i].arg = FormatStatus(6, "ready_to_reboot")

BackupRank(name) ==
    CASE name \in {"capture_image", "append_image"} -> 1
      [] name = "verify_output" -> 2
      [] name = "delete_current_boot_entry" -> 3
      [] name \in {"cleanup_partition_markers", "cleanup_data_dir",
                   "cleanup_pe_dir"} -> 4
      [] OTHER -> 0

BackupRanks == [i \in DOMAIN calls |-> BackupRank(calls[i][1])]

NonDecreasing(r) == \A i, j \in DOMAIN r : i < j => r[i] <= r[j]

(* C19: the backup workflow executes in exactly this order: read the job   *)
(* record, capture (or append) the image, verify that the output file      *)
(* exists, remove the preboot boot entry, clean up markers, data and       *)
(* preboot directories, mark complete, restart. Every operation invoked is *)
(* one of these, in this order; completion is reported only after all of   *)
(* them, in particular never without the output-file check; a restart      *)
(* comes only after completion.                                            *)
C19_BackupOrder ==
    orch \in BackupOrchs =>
        /\ 0 \notin Range(BackupRanks)
        /\ NonDecreasing(BackupRanks)
        /\ ReportedComplete => {1, 2, 3, 4} \subseteq Range(BackupRanks)
        /\ reboot => ReportedComplete


-----------------------------------------------------------------------------
(* The exit behaviour of an install.                                       *)

\* the terminal success notification of each install front end: the
\* Completed event of the PE window, the success box of the silent entry
\* points, the completion label of the install panel
SuccessShown ==
    CASE orch = "PEI" -> \E i \in DOMAIN uiChan : uiChan[i].kind = "completed"
      [] orch \in {"CLII", "NPI"} -> HasBox("success")
      [] orch = "DIR" -> InstallUI.total_progress >= 100
      [] OTHER -> FALSE

(* C20: on completion of an install workflow a restart is triggered if and *)
(* only if the job's auto-reboot flag is set; otherwise a success          *)
(* notification is shown and no restart is triggered.                      *)
C20_RestartIffAutoReboot ==
    (orch \in InstallOrchs /\ pc = "done" /\ ReportedComplete) =>
        /\ reboot <=> config.auto_reboot
        /\ ~config.auto_reboot => SuccessShown

-----------------------------------------------------------------------------
(* The boot mode used by the boot repair.                                  *)

PartitionStyles == {"GPT", "MBR", "Unknown"}

BootModeSelections == {"UEFI", "Legacy", "Auto"}

\* 正常系统端 system_install.rs 428-440
get_actual_boot_mode(selection, partition_style) ==
    CASE selection = "UEFI" -> "UEFI"
      [] selection = "Legacy" -> "Legacy"
      [] OTHER -> CASE partition_style = "GPT" -> "UEFI"
                    [] partition_style = "MBR" -> "Legacy"
                    [] OTHER -> "UEFI"

\* 正常系统端 install_progress.rs 378-382: `use_uefi` of the direct install
DIR_use_uefi(selection, partition_style) ==
    CASE selection = "UEFI" -> TRUE
      [] selection = "Legacy" -> FALSE
      [] OTHER -> partition_style = "GPT"

\* the drive letters DiskManager::detect_uefi_mode probes for an EFI
\* system partition (PE端 disk.rs 327)
EfiProbeLetters == {"S", "T", "U", "V", "W", "Y", "Z"}

\* drive letters on which \EFI\Microsoft\Boot may exist
EfiLetters == {"S", "X"}

\* what `bcdedit /enum firmware` prints: the command did not run, output
\* with neither word, output containing "firmware", output containing "UEFI"
BcdOutputs == {"error", "other", "firmware", "UEFI"}

\* what Confirm-SecureBootUEFI prints
SecureBootOutputs == {"error", "true", "false"}

\* PE端 disk.rs 325-363: the firmware of the running PE, asked three ways
detect_uefi_mode(efi, bcd, sb) ==
    \/ efi \cap EfiProbeLetters # {}
    \/ bcd \in {"firmware", "UEFI"}
    \/ sb = "true"

\* a boot repair about to choose its mode: the user's selection, the table
\* style of the target partition and the facts about the firmware
BootModeCall(site, selection, style, efi, bcd, sb) ==
    [fn |-> "boot_mode", pc |-> "call", site |-> site,
     selection |-> selection, style |-> style,
     efi |-> efi, bcd |-> bcd, sb |-> sb, ret |-> None]

\* the job record has no boot-mode field (install_progress.rs 557-578), so
\* execute_install_workflow is never forced; the normal side does not ask
\* the firmware
BootModeCalls ==
    {BootModeCall("PEI", "Auto", st, efi, bcd, sb) :
        st \in PartitionStyles, efi \in SUBSET EfiLetters,
        bcd \in BcdOutputs, sb \in SecureBootOutputs}
    \cup {BootModeCall(site, sel, st, {}, "other", "false") :
        site \in {"DIR", "UI"}, sel \in BootModeSelections,
        st \in PartitionStyles}

FnReturn(r) == sess' = [sess EXCEPT !.pc = "returned", !.ret = r]

FnAt(fn) == sess.fn = fn /\ sess.pc = "call"

\* PE端 app.rs 301-304
BootMode_PEI ==
    /\ FnAt("boot_mode") /\ sess.site = "PEI"
    /\ FnReturn(IF detect_uefi_mode(sess.efi, sess.bcd, sess.sb)
                THEN "UEFI" ELSE "Legacy")
    /\ UNCHANGED wfVars

\* 正常系统端 install_progress.rs 376-388
BootMode_DIR ==
    /\ FnAt("boot_mode") /\ sess.site = "DIR"
    /\ FnReturn(IF DIR_use_uefi(sess.selection, sess.style)
                THEN "UEFI" ELSE "Legacy")
    /\ UNCHANGED wfVars

\* 正常系统端 system_install.rs 428-440, as shown to the user
BootMode_UI ==
    /\ FnAt("boot_mode") /\ sess.site = "UI"
    /\ FnReturn(get_actual_boot_mode(sess.selection, sess.style))
    /\ UNCHANGED wfVars

(* C21: when the caller does not force a boot mode, boot repair uses UEFI  *)
(* if the target partition's table style is GPT and Legacy if it is MBR;   *)
(* an explicit selection of UEFI or Legacy overrides the derivation.       *)
C21_BootModeFromStyle ==
    (sess.fn = "boot_mode" /\ sess.pc = "returned") =>
        /\ sess.selection \in {"UEFI", "Legacy"} => sess.ret = sess.selection
        /\ (sess.selection = "Auto" /\ sess.style = "GPT") => sess.ret = "UEFI"
        /\ (sess.selection = "Auto" /\ sess.style = "MBR") => sess.ret = "Legacy"

-----------------------------------------------------------------------------
(* The files of a job.                                                     *)

JobFiles == {"job_record", "data_marker", "target_marker"}

\* what a cleanup operation of ConfigFileManager removes: the markers of
\* the partition it is given, the data directory (job record and
\* data-partition marker) of the data partition it is given
CleanupRemoves(c) ==
    CASE c[1] = "cleanup_all" -> JobFiles
      [] c[1] = "cleanup_partition_markers" -> {"target_marker"}
      [] c[1] = "cleanup_data_dir" -> {"job_record", "data_marker"}
      [] OTHER -> {}

\* the files removed by the operations invoked so far
Removed == UNION {CleanupRemoves(calls[i]) : i \in DOMAIN calls}

(* C22: when a post-reboot workflow reports terminal success, the job      *)
(* record and all marker files have been removed by then.                  *)
C22_CleanedBeforeComplete ==
    (orch \in PostRebootOrchs /\ ReportedComplete) => JobFiles \subseteq Removed

-----------------------------------------------------------------------------
(* The list of installable images.                                         *)

\* names an IMAGE entry may carry ("" when neither DISPLAYNAME nor NAME is
\* present) and the values of its INSTALLATIONTYPE tag ("" when absent)
ImageNames ==
    {"", "Windows 10 Pro", "Microsoft Windows PE (x64)",
     "Microsoft Windows Setup (x64)", "System Backup"}

InstallationTypes == {"", "Client", "WindowsPE"}

\* str::to_lowercase on the strings above
to_lowercase(s) ==
    CASE s = "Windows 10 Pro" -> "windows 10 pro"
      [] s = "Microsoft Windows PE (x64)" -> "microsoft windows pe (x64)"
      [] s = "Microsoft Windows Setup (x64)" -> "microsoft windows setup (x64)"
      [] s = "System Backup" -> "system backup"
      [] s = "Client" -> "client"
      [] s = "WindowsPE" -> "windowspe"
      [] OTHER -> s

\* str::contains(needle) on the lowercased names above
contains(s, needle) ==
    \/ needle = ""
    \/ s = "windows 10 pro" /\ needle = "windows 10"
    \/ s = "microsoft windows pe (x64)" /\ needle = "windows pe"
    \/ s = "microsoft windows setup (x64)" /\ needle = "windows setup"

excluded_keywords == {"windows pe", "windows setup", "setup media", "winpe"}

valid_system_keywords ==
    {"windows 10", "windows 11", "windows server", "windows 8", "windows 7"}

\* 正常系统端 system_install.rs 598-642
is_installable_image(vol) ==
    LET name_lower == to_lowercase(vol.name)
        install_type_lower == to_lowercase(vol.installation_type)
    IN  /\ install_type_lower # "windowspe"
        /\ \A k \in excluded_keywords : ~contains(name_lower, k)
        /\ vol.installation_type = "" =>
               \E k \in valid_system_keywords : contains(name_lower, k)

\* PE端 dism.rs 464-514: an IMAGE block becomes an ImageInfo when its index
\* is positive and its name is not empty
parse_wim_xml(xml) ==
    SelectSeq(xml, LAMBDA e : e.index > 0 /\ e.name # "")

\* 正常系统端 system_install.rs 84-102: the filtered list, or the whole list
\* when the filter leaves nothing
volumes_to_show(image_volumes) ==
    LET installable_volumes ==
            SelectSeq(image_volumes, LAMBDA v : is_installable_image(v))
    IN  IF installable_volumes = <<>> THEN image_volumes
        ELSE installable_volumes

\* the number of IMAGE entries in the metadata
ImageCount == 3

ImageEntry(i, n, t) == [index |-> i, name |-> n, installation_type |-> t]

\* the metadata of a container: ImageCount entries numbered from 1
ImageMetadata ==
    {[i \in 1..ImageCount |-> ImageEntry(i, f[i][1], f[i][2])] :
        f \in [1..ImageCount -> ImageNames \X InstallationTypes]}

ImageListCalls ==
    {[fn |-> "image_list", pc |-> "call", xml |-> x, ret |-> None] :
        x \in ImageMetadata}

\* the metadata is parsed and the list shown to the user is built
ImageList_Call ==
    /\ FnAt("image_list")
    /\ FnReturn(volumes_to_show(parse_wim_xml(sess.xml)))
    /\ UNCHANGED wfVars

\* the entries of the metadata that are not of type WindowsPE, in order
NonPEEntries(xml) ==
    SelectSeq(xml, LAMBDA e : e.installation_type # "WindowsPE")

(* C23: given metadata with three IMAGE entries of which exactly one has   *)
(* INSTALLATIONTYPE=WindowsPE, the installable list shown to the user      *)
(* excludes exactly that entry and keeps the other two in their original   *)
(* order.                                                                  *)
C23_OnlyWindowsPEExcluded ==
    ( /\ sess.fn = "image_list" /\ sess.pc = "returned"
      /\ Len(sess.xml) = 3
      /\ Len(NonPEEntries(sess.xml)) = 2 )
    => sess.ret = NonPEEntries(sess.xml)

-----------------------------------------------------------------------------
(* Reading the image list of a container.                                  *)

Ok(v) == [ok |-> TRUE, val |-> v, err |-> None]

Failed(e) == [ok |-> FALSE, val |-> <<>>, err |-> e]

Vol(i) == ImageEntry(i, "Windows 10 Pro", "Client")

\* what the primary backend (wimgapi in the PE, dism.exe on the normal
\* side) yields: it cannot be started, it runs and fails, or it lists the
\* images
PrimaryOutcomes ==
    {Failed("unavailable"), Failed("failed"), Ok(<<>>), Ok(<<Vol(1)>>),
     Ok(<<Vol(1), Vol(2)>>)}

\* what reading the embedded XML directory yields; parse_wim_xml never
\* returns an empty list (PE端 dism.rs 509-511)
XmlOutcomes == {Failed("xml"), Ok(<<Vol(1)>>), Ok(<<Vol(1), Vol(2)>>)}

\* PE端 dism.rs 364-387
PE_get_image_info(primary, xml) ==
    IF primary.ok THEN primary
    ELSE IF xml.ok /\ xml.val # <<>> THEN xml
    ELSE Failed("no_image_info")

\* 正常系统端 dism.rs 209-216: `output()?`, then the output is parsed
\* whatever the exit status; output without index lines parses to Ok(vec![])
NS_get_image_info(primary) ==
    IF primary.ok THEN primary
    ELSE IF primary.err = "unavailable" THEN Failed("spawn")
    ELSE Ok(<<>>)

GetImageInfoCalls ==
    {[fn |-> "get_image_info", pc |-> "call", site |-> s, primary |-> p,
      xml |-> x, ret |-> None, image_volumes |-> <<>>,
      selected_volume |-> None] :
        s \in {"PE", "Normal"}, p \in PrimaryOutcomes, x \in XmlOutcomes}

GetImageInfo_PE ==
    /\ FnAt("get_image_info") /\ sess.site = "PE"
    /\ FnReturn(PE_get_image_info(sess.primary, sess.xml))
    /\ UNCHANGED wfVars

\* 正常系统端 system_install.rs 470-483: the loading thread
GetImageInfo_Normal ==
    /\ FnAt("get_image_info") /\ sess.site = "Normal"
    /\ FnReturn(NS_get_image_info(sess.primary))
    /\ UNCHANGED wfVars

\* the first installable volume, as a 0-based position, or None
FirstInstallable(vols) ==
    LET ok == {i \in DOMAIN vols : is_installable_image(vols[i])}
    IN  IF ok = {} THEN None
        ELSE (CHOOSE i \in ok : \A j \in ok : i <= j) - 1

\* 正常系统端 system_install.rs 556-591: the UI takes the result
ImageInfo_Poll ==
    /\ sess.fn = "get_image_info" /\ sess.site = "Normal"
    /\ sess.pc = "returned"
    /\ sess' = [sess EXCEPT
                  !.pc = "shown",
                  !.image_volumes = IF sess.ret.ok THEN sess.ret.val ELSE <<>>,
                  !.selected_volume =
                      IF sess.ret.ok THEN FirstInstallable(sess.ret.val)
                      ELSE None]
    /\ UNCHANGED wfVars

\* 正常系统端 system_install.rs 369-373, for a container image: the install
\* can be started only with a volume selected, and a volume can only be
\* selected from image_volumes (84-153)
can_install == sess.selected_volume # None

\* the three-tier result: the primary backend's, else the XML directory's,
\* else no image info
ThreeTier(primary, xml) ==
    IF primary.ok THEN primary
    ELSE IF xml.ok THEN xml
    ELSE Failed("no_image_info")

(* C24: getImageInfo returns the primary backend's result when that        *)
(* succeeds, otherwise the result of parsing the embedded XML directory,   *)
(* and only when both fail reports that no image info is available; after  *)
(* that report the caller can still proceed with a user-supplied index.    *)
C24_ImageInfoFallback ==
    (sess.fn = "get_image_info" /\ sess.pc \in {"returned", "shown"}) =>
        LET want == ThreeTier(sess.primary, sess.xml) IN
        /\ sess.ret.ok = want.ok
        /\ sess.ret.val = want.val
        /\ (sess.pc = "shown" /\ ~sess.ret.ok) => can_install

-----------------------------------------------------------------------------
(* Enumerating the fixed partitions and their partition style.             *)

ScanLetters == <<"C:", "D:">>

\* what Get-Partition/Get-Disk prints, split at '|'; spawn = FALSE when
\* powershell cannot be started
PsOutcomes ==
    {[spawn |-> FALSE, parts |-> <<"">>],
     [spawn |-> TRUE, parts |-> <<"">>],
     [spawn |-> TRUE, parts |-> <<"GPT", "0", "1">>],
     [spawn |-> TRUE, parts |-> <<"MBR", "0", "2">>],
     [spawn |-> TRUE, parts |-> <<"RAW", "", "">>]}

\* the diskpart run: whether the script file is written, whether diskpart
\* starts, and the numbers on the disk and partition lines of `detail
\* volume`, None when the output has no such line
DpOutcomes ==
    [write : BOOLEAN, spawn : BOOLEAN, disk : {None, "0"},
     part : {None, "1"}]

\* what `detail disk` yields: an output naming GPT, naming MBR, naming
\* neither, or no output at all
DiskStyleOutcomes == {"error", "GPT", "MBR", "other"}

parse_u32(s) == IF s \in {"0", "1", "2"} THEN s ELSE None

PartitionDetail(style, disk, part) ==
    [style |-> style, disk_number |-> disk, partition_number |-> part]

\* disk.rs get_disk_partition_style
get_disk_partition_style(ds) ==
    IF ds = "GPT" THEN "GPT" ELSE IF ds = "MBR" THEN "MBR" ELSE "Unknown"

\* disk.rs get_partition_style_diskpart
get_partition_style_diskpart(dp, ds) ==
    IF ~dp.write \/ ~dp.spawn THEN PartitionDetail("Unknown", None, None)
    ELSE PartitionDetail(
             IF dp.disk # None THEN get_disk_partition_style(ds)
             ELSE "Unknown",
             dp.disk, dp.part)

\* disk.rs get_partition_style
get_partition_style(ps, dp, ds) ==
    IF ps.spawn /\ Len(ps.parts) >= 3
    THEN PartitionDetail(
             IF ps.parts[1] \in {"GPT", "MBR"} THEN ps.parts[1]
             ELSE "Unknown",
             parse_u32(ps.parts[2]), parse_u32(ps.parts[3]))
    ELSE get_partition_style_diskpart(dp, ds)

\* a drive letter as the scan finds it
DriveEnvs ==
    [kind : {"fixed"}, space : {TRUE}, ps : PsOutcomes, dp : DpOutcomes,
     ds : DiskStyleOutcomes]
    \cup
    [kind : {"none", "fixed"}, space : {FALSE},
     ps : {[spawn |-> FALSE, parts |-> <<"">>]},
     dp : {[write |-> FALSE, spawn |-> FALSE, disk |-> None, part |-> None]},
     ds : {"error"}]

\* get_partition_info that gives up on a drive whose style is unknown
get_partition_info_DropUnknown(drive, env) ==
    IF env.kind # "fixed" \/ ~env.space THEN <<>>
    ELSE LET detail == get_partition_style(env.ps, env.dp, env.ds)
         IN  IF detail.style = "Unknown" THEN <<>>
             ELSE <<[letter |-> drive,
                     partition_style |-> detail.style,
                     disk_number |-> detail.disk_number,
                     partition_number |-> detail.partition_number]>>

\* disk.rs get_partition_info: <<>> for Err, else the one partition
get_partition_info(drive, env) ==
    IF env.kind # "fixed" THEN <<>>
    ELSE IF ~env.space THEN <<>>
    ELSE LET detail == get_partition_style(env.ps, env.dp, env.ds)
         IN  <<[letter |-> drive,
                partition_style |-> detail.style,
                disk_number |-> detail.disk_number,
                partition_number |-> detail.partition_number]>>

GetPartitionsCalls ==
    {[fn |-> "get_partitions", pc |-> "call", next |-> 1, envs |-> <<>>,
      partitions |-> <<>>, ret |-> None]}

\* disk.rs get_partitions, one pass of the loop over the letters
GetPartitions_Letter ==
    /\ FnAt("get_partitions")
    /\ sess.next <= Len(ScanLetters)
    /\ \E env \in DriveEnvs :
          sess' = [sess EXCEPT
                     !.next = @ + 1,
                     !.envs = Append(@, env),
                     !.partitions =
                         @ \o get_partition_info(ScanLetters[sess.next], env)]
    /\ UNCHANGED wfVars

GetPartitions_Return ==
    /\ FnAt("get_partitions")
    /\ sess.next > Len(ScanLetters)
    /\ FnReturn(sess.partitions)
    /\ UNCHANGED wfVars

\* neither strategy produced anything: powershell did not start or printed
\* no `style|disk|partition` line, and diskpart did not run or printed no
\* disk and no partition line
BothStrategiesFail(env) ==
    /\ ~(env.ps.spawn /\ Len(env.ps.parts) >= 3)
    /\ \/ ~env.dp.write
       \/ ~env.dp.spawn
       \/ env.dp.disk = None /\ env.dp.part = None

(* C25: a fixed, accessible drive for which both the primary and the       *)
(* fallback partition-style strategy fail is still reported by the         *)
(* enumeration, with Unknown style and no disk and partition number.       *)
C25_UnknownStyleStillReported ==
    (sess.fn = "get_partitions" /\ sess.pc = "returned") =>
        \A i \in DOMAIN sess.envs :
            (/\ sess.envs[i].kind = "fixed"
             /\ sess.envs[i].space
             /\ BothStrategiesFail(sess.envs[i])) =>
                \E k \in DOMAIN sess.ret :
                    sess.ret[k] = [letter |-> ScanLetters[i],
                                   partition_style |-> "Unknown",
                                   disk_number |-> None,
                                   partition_number |-> None]

C25_Witness ==
    /\ sess.fn = "get_partitions" /\ sess.pc = "returned"
    /\ Len(sess.ret) = 2
    /\ sess.ret[2].partition_style = "Unknown"
    /\ sess.envs[2].kind = "fixed" /\ sess.envs[2].space
    /\ BothStrategiesFail(sess.envs[2])
    /\ sess.envs[2].ps.spawn /\ sess.envs[2].dp.spawn /\ sess.envs[2].dp.write

-----------------------------------------------------------------------------
(* The answer file: its leaf elements, in document order.                  *)

Usernames == {"", "User", "Alice"}

El(tag, text) == <<tag, text>>

OobeElements ==
    <<El("HideEULAPage", "true"), El("HideLocalAccountScreen", "true"),
      El("HideOEMRegistrationScreen", "true"),
      El("HideOnlineAccountScreens", "true"),
      El("HideWirelessSetupInOOBE", "true"), El("ProtectYourPC", "3"),
      El("SkipMachineOOBE", "true"), El("SkipUserOOBE", "true")>>

AccountElements(username) ==
    <<El("Value", ""), El("PlainText", "true"),
      El("Description", "Local User"), El("DisplayName", username),
      El("Group", "Administrators"), El("Name", username),
      El("Value", ""), El("PlainText", "true"), El("Enabled", "true"),
      El("Username", username)>>

\* the answer file that uses the username as given
PE_unattend_xml_NoFallback(username) ==
    <<El("WillShowUI", "OnError"), El("AcceptEula", "true")>>
        \o OobeElements \o AccountElements(username)

\* PE端 app.rs 473-529 (and main.rs 322-, 正常系统端 main.rs 431-)
PE_unattend_xml(username) ==
    LET name == IF username = "" THEN "User" ELSE username
    IN  <<El("WillShowUI", "OnError"), El("AcceptEula", "true")>>
            \o OobeElements \o AccountElements(name)

\* 正常系统端 install_progress.rs 699-780
NI_unattend_xml(custom_username, username) ==
    LET name == IF custom_username /\ username # "" THEN username
                ELSE "User"
    IN  <<El("WillShowUI", "OnError"), El("AcceptEula", "true"),
          El("ComputerName", "*"), El("Order", "1"),
          El("Path", "deploy.bat"),
          El("Description", "Run custom deploy script")>>
            \o OobeElements \o AccountElements(name)
            \o <<El("Order", "1"), El("CommandLine", "firstlogon.bat"),
                 El("Description", "Run first login script")>>

\* creating the Panther directory and writing the file can each fail
UnattendFs == {"ok", "mkdir_failed", "write_failed"}

UnattendCalls ==
    {[fn |-> "generate_unattend_xml", pc |-> "call", site |-> s,
      custom_username |-> c, username |-> u, fs |-> f, file |-> <<>>,
      ret |-> None] :
        s \in {"PE", "Normal"}, c \in BOOLEAN, u \in Usernames,
        f \in UnattendFs}

\* PE端 app.rs 473-537; the job record carries the username only
GenerateUnattend_PE ==
    /\ FnAt("generate_unattend_xml") /\ sess.site = "PE"
    /\ sess' = [sess EXCEPT
                  !.pc = "returned",
                  !.file = IF sess.fs = "ok"
                           THEN PE_unattend_xml(sess.username) ELSE <<>>,
                  !.ret = IF sess.fs = "ok" THEN "Ok" ELSE "Err"]
    /\ UNCHANGED wfVars

\* 正常系统端 install_progress.rs 699-794
GenerateUnattend_NI ==
    /\ FnAt("generate_unattend_xml") /\ sess.site = "Normal"
    /\ sess' = [sess EXCEPT
                  !.pc = "returned",
                  !.file = IF sess.fs = "ok"
                           THEN NI_unattend_xml(sess.custom_username,
                                                sess.username)
                           ELSE <<>>,
                  !.ret = IF sess.fs = "ok" THEN "Ok" ELSE "Err"]
    /\ UNCHANGED wfVars

Places(file, el) == {i \in DOMAIN file : file[i] = el}

\* an answer file was written for a job with no username of its own
WrittenWithEmptyUsername ==
    /\ sess.fn = "generate_unattend_xml" /\ sess.pc = "returned"
    /\ sess.ret = "Ok"
    /\ sess.username = ""

(* C26: for an unattended install job with an empty username, the answer   *)
(* file written contains <Name>User</Name> in exactly 3 places.            *)
C26_NameElementThrice ==
    WrittenWithEmptyUsername =>
        Cardinality(Places(sess.file, El("Name", "User"))) = 3

(* C26, as the code has it: the fallback username User is substituted in   *)
(* exactly 3 places, once each as DisplayName, Name and Username, so       *)
(* <Name>User</Name> occurs exactly once.                                  *)
C26_UsernameInThreePlaces ==
    WrittenWithEmptyUsername =>
        /\ Cardinality({i \in DOMAIN sess.file : sess.file[i][2] = "User"}) = 3
        /\ \A tag \in {"DisplayName", "Name", "Username"} :
              Cardinality(Places(sess.file, El(tag, "User"))) = 1

C26_Witness ==
    /\ WrittenWithEmptyUsername
    /\ sess.site = "PE"
    /\ Places(sess.file, El("Name", "User")) # {}

-----------------------------------------------------------------------------
(* Locating the data partition at the start of the post-reboot install.    *)

FindDataPartitionCalls ==
    {[fn |-> "find_data_partition", pc |-> "call", marks |-> m,
      ret |-> None, failed |-> FALSE] : m \in SUBSET Letters}

\* the lookup that falls back to the first partition when none is marked
FindDataPartition_PEI_Arbitrary ==
    /\ FnAt("find_data_partition")
    /\ sess' = [sess EXCEPT
                  !.pc = "returned",
                  !.ret = IF sess.marks = {} THEN LetterOrder[1]
                          ELSE FindMarked(sess.marks)]
    /\ UNCHANGED wfVars

\* PE端 app.rs 185-192: Some(p) is the data partition, None ends the
\* workflow with Failed
FindDataPartition_PEI ==
    /\ FnAt("find_data_partition")
    /\ LET dp == FindMarked(sess.marks) IN
       sess' = [sess EXCEPT !.pc = "returned", !.ret = dp,
                            !.failed = (dp = None)]
    /\ UNCHANGED wfVars

-----------------------------------------------------------------------------
(* The via-preboot phase 1 and the job record.                             *)

\* install_progress.rs 114, 128-143: the panel offers the restart into the
\* preboot environment
RebootOffered == orch = "VIAPE" /\ InstallUI.total_progress >= 100

JobRecordWritten ==
    /\ \E i \in DOMAIN calls : calls[i][1] = "write_install_config"
    /\ "write_config" \notin failures

(* C29: in via-preboot mode the ready-for-reboot state, and the offer to   *)
(* reboot into the preboot environment, is reached only if the job record  *)
(* was written successfully.                                               *)
C29_ReadyOnlyWithJobRecord ==
    (orch = "VIAPE" /\ (ReadyForReboot \/ RebootOffered)) => JobRecordWritten

(* C30: the partition chosen in phase 1 to hold the job record and the     *)
(* copied image is never the install target partition that phase 2         *)
(* formats.                                                                *)
C30_DataPartitionIsNotTarget ==
    (orch = "VIAPE" /\ dataPart # None) => dataPart # target

-----------------------------------------------------------------------------
(* Terminal events on the UI channel of the PE workflows.                  *)

TerminalEvents ==
    {i \in DOMAIN uiChan : uiChan[i].kind \in {"completed", "failed"}}

(* C32: a workflow run emits at most one terminal event (completed or      *)
(* failed), never both, and no step-changed or progress event is put on    *)
(* the UI channel after the terminal event.                                *)
C32_OneTerminalEventLast ==
    orch \in {"PEI", "PEB"} =>
        /\ Cardinality(TerminalEvents) <= 1
        /\ \A i \in TerminalEvents : \A j \in DOMAIN uiChan :
              j > i => uiChan[j].kind \notin {"step", "progress"}

-----------------------------------------------------------------------------
(* What the UI shows once a workflow thread has ended.                     *)

\* the terminal indications: the completed or failed state of the PE
\* progress panel; on the install panel of the normal system the finished
\* total (install complete / ready for the restart) or the error line
TerminalIndication ==
    IF orch \in {"PEI", "PEB"} THEN TerminalEvents # {}
    ELSE InstallUI.total_progress >= 100 \/ InstallUI.install_error # None

(* C33: provided every external operation returns, every started workflow  *)
(* eventually delivers a terminal indication to the UI (completed,         *)
(* ready-for-reboot or failed); a workflow thread never ends while leaving *)
(* the UI in a non-terminal in-progress state.                             *)
C33_EndsWithTerminalIndication ==
    (orch \in ChannelOrchs /\ pc = "done") => TerminalIndication

-----------------------------------------------------------------------------
(* The hives around a driver import.                                       *)

\* the session is at a sub-step that imports drivers
AtDriverImport ==
    \/ InAO("storage")
    \/ InATS("custom_drivers")
    \/ InATS("storage")

(* C35: after a driver-import sub-step that temporarily unloads the hives, *)
(* exactly the hives that were mounted before it are mounted again, so     *)
(* that later mutations and the final unload act on the same set of hives  *)
(* that was originally loaded.                                             *)
C35_HivesRestoredAfterImport ==
    [][AtDriverImport => sess'.mounted = sess.mounted]_vars

-----------------------------------------------------------------------------
(* The relay thread's end.  Every thread keeps being scheduled and every   *)
(* external operation returns: weak fairness of the next-state relation.   *)

SpecLive == Init /\ [][Next]_vars /\ WF_vars(Next)

(* C36: every forwarding (relay) thread terminates once its source channel *)
(* is closed, on every path of the step that spawned it: engine success,   *)
(* engine failure, engine unavailable.                                     *)
C36_RelayTerminates ==
    (relay = "running") ~> (relay = "done")

C36_Witness ==
    /\ orch = "PEI"
    /\ "ghost_unavailable" \in failures
    /\ relay = "done"

-----------------------------------------------------------------------------
(* One install job and its format-before-apply flag, through the direct    *)
(* run or through phase 1 and the post-reboot run.                         *)

\* the fields of InstallConfig that phase 1 fills
\* (install_progress.rs 557-578); the format flag is not among them
JobRecord(opts, letter) ==
    [unattended       |-> opts.unattended_install,
     restore_drivers  |-> opts.export_drivers,
     auto_reboot      |-> opts.auto_reboot,
     target_partition |-> letter]

InstallOptionSets ==
    [format_partition : BOOLEAN, unattended_install : BOOLEAN,
     export_drivers : BOOLEAN, auto_reboot : BOOLEAN]

FormatJobCalls ==
    {[fn |-> "install_job", pc |-> "call", mode |-> m, options |-> o,
      target |-> t, record |-> None, formatted |-> {}, ret |-> None] :
        m \in {"Direct", "ViaPE"}, o \in InstallOptionSets, t \in Letters}

\* install_progress.rs 248-262: Step 1 of the direct run
Job_DirectFormat ==
    /\ FnAt("install_job") /\ sess.mode = "Direct"
    /\ sess' = [sess EXCEPT
                  !.pc = "returned",
                  !.formatted = IF sess.options.format_partition
                                THEN @ \cup {sess.target} ELSE @,
                  !.ret = "direct"]
    /\ UNCHANGED wfVars

\* install_progress.rs 557-585: Step 5 of phase 1 writes the job record
Job_WriteRecord ==
    /\ FnAt("install_job") /\ sess.mode = "ViaPE"
    /\ sess' = [sess EXCEPT
                  !.pc = "rebooted",
                  !.record = JobRecord(sess.options, sess.target)]
    /\ UNCHANGED wfVars

\* PE端 app.rs 224-237: Step 1 of the post-reboot run, which reads the
\* record and formats the target
Job_PostRebootFormat ==
    /\ sess.fn = "install_job" /\ sess.pc = "rebooted"
    /\ \E ok \in BOOLEAN :
         sess' = [sess EXCEPT
                    !.pc = "returned",
                    !.formatted = @ \cup {sess.record.target_partition},
                    !.ret = IF ok THEN "post_reboot" ELSE "format_failed"]
    /\ UNCHANGED wfVars

(* C31: the target partition is formatted only if the job's                *)
(* format-before-apply flag is set; with the flag unset no format is       *)
(* performed, neither in a direct run nor in the post-reboot run of the    *)
(* same job.                                                               *)
C31_FormatOnlyIfFlagged ==
    (sess.fn = "install_job" /\ sess.formatted # {}) =>
        sess.options.format_partition

-----------------------------------------------------------------------------
(* Choosing the install mode for the selected partition, on a normally     *)
(* booted system.                                                          *)

to_uppercase_drive(s) ==
    CASE s = "c:" -> "C:" [] s = "d:" -> "D:" [] OTHER -> s

eq_ignore_ascii_case(a, b) == to_uppercase_drive(a) = to_uppercase_drive(b)

\* SystemInfo::check_pe_environment (system_info.rs 241-283): the marker
\* files under X:\, SystemDrive = X:, the winpe flag of the current boot
\* entry, the marker files under %SystemDrive%
check_pe_environment(env) ==
    \/ env.x_markers
    \/ (env.SystemDrive # None /\ to_uppercase_drive(env.SystemDrive) = "X:")
    \/ env.bcd_winpe
    \/ (env.SystemDrive # None /\ env.sys_markers)

\* disk.rs 113-127: is_system_partition of a partition
is_system_partition(drive, env, has_windows) ==
    LET system_drive == IF env.SystemDrive # None THEN env.SystemDrive
                        ELSE "C:"
        is_current_system == eq_ignore_ascii_case(drive, system_drive)
    IN  IF check_pe_environment(env) THEN has_windows /\ ~is_current_system
        ELSE is_current_system

\* system_install.rs 749-757
install_mode(is_pe, is_sys) ==
    IF is_pe \/ ~is_sys THEN "Direct" ELSE "ViaPE"

\* what a normally booted system presents: the OS is on `booted`,
\* SystemDrive names it (in either case) or is unset
NormalSystemEnvs ==
    {[booted |-> b, SystemDrive |-> v, x_markers |-> x, bcd_winpe |-> w,
      sys_markers |-> s] :
        b \in Letters, v \in {None, "C:", "D:", "c:", "d:"},
        x \in BOOLEAN, w \in BOOLEAN, s \in BOOLEAN}
    \ {e \in [booted : Letters, SystemDrive : {"C:", "D:", "c:", "d:"},
              x_markers : BOOLEAN, bcd_winpe : BOOLEAN,
              sys_markers : BOOLEAN] :
          to_uppercase_drive(e.SystemDrive) # e.booted}

InstallModeCalls ==
    {[fn |-> "install_mode", pc |-> "call", env |-> e, partition |-> p,
      install_mode |-> None, thread |-> None, ret |-> None] :
        e \in NormalSystemEnvs, p \in Letters}

\* system_install.rs 733-808 with the partition list of disk.rs 58-72
InstallMode_Start ==
    /\ FnAt("install_mode")
    /\ sess.install_mode = None
    /\ sess' = [sess EXCEPT
                  !.install_mode =
                      install_mode(
                          check_pe_environment(sess.env),
                          is_system_partition(sess.partition, sess.env,
                                              sess.partition = sess.env.booted))]
    /\ UNCHANGED wfVars

\* install_progress.rs 153-159: the first frame of the progress panel
\* starts the thread of the mode
InstallMode_Thread ==
    /\ FnAt("install_mode")
    /\ sess.install_mode # None
    /\ sess' = [sess EXCEPT
                  !.pc = "returned",
                  !.thread = IF sess.install_mode = "Direct"
                             THEN "direct_install" ELSE "pe_install",
                  !.ret = sess.install_mode]
    /\ UNCHANGED wfVars

(* C34: outside the preboot environment the direct-mode install thread,    *)
(* which formats and overwrites its target, is never started for the       *)
(* partition of the currently booted OS; such a target is always routed to *)
(* via-preboot mode.                                                       *)
C34_BootedPartitionViaPreboot ==
    (sess.fn = "install_mode" /\ sess.pc = "returned"
        /\ sess.partition = sess.env.booted) =>
            sess.thread = "pe_install"

-----------------------------------------------------------------------------
(* How an imaging operation reports the engine's failure.                  *)

\* what the engine says when it fails
EngineMessages == {<<"access_denied">>, <<"error_87", "bad_parameter">>}

ExitCodes == {0, 1, 87}

\* the engine run behind one imaging call.  PE side: the library may fail to
\* load (init) or the operation may fail (op), each with its message.
\* Normal side: dism.exe may fail to start, else it exits with a code and
\* has printed its message to the console when the code is not 0.
EngineRuns ==
    {[started |-> s, code |-> c, message |-> m] :
        s \in BOOLEAN, c \in ExitCodes, m \in EngineMessages}

\* PE端 dism.rs 46-89: Dism::apply_image over wimgapi
PE_apply_image(init, run) ==
    IF ~init.ok THEN Failed(<<"wimgapi_init_failed">> \o init.err)
    ELSE IF ~run.started \/ run.code # 0
    THEN Failed(<<"apply_failed">> \o run.message)
    ELSE Ok(<<>>)

\* 正常系统端 dism.rs 268-352: Dism::run_with_progress; stderr is printed,
\* the error returned for a non-zero exit is a fixed text
NS_run_with_progress(run) ==
    IF ~run.started THEN Failed(<<"spawn">> \o run.message)
    ELSE IF run.code # 0 THEN Failed(<<"DISM command failed">>)
    ELSE Ok(<<>>)

RunImagingCalls ==
    {[fn |-> "imaging", pc |-> "call", site |-> s, init |-> i, run |-> r,
      ret |-> None] :
        s \in {"PE", "Normal"},
        i \in {Ok(<<>>)} \cup {Failed(m) : m \in EngineMessages},
        r \in EngineRuns}

Imaging_PE ==
    /\ FnAt("imaging") /\ sess.site = "PE"
    /\ FnReturn(PE_apply_image(sess.init, sess.run))
    /\ UNCHANGED wfVars

Imaging_Normal ==
    /\ FnAt("imaging") /\ sess.site = "Normal"
    /\ FnReturn(NS_run_with_progress(sess.run))
    /\ UNCHANGED wfVars

\* the engine failed in this call, and with which message
EngineFailure ==
    IF sess.site = "PE" /\ ~sess.init.ok THEN sess.init.err
    ELSE IF ~sess.run.started \/ sess.run.code # 0 THEN sess.run.message
    ELSE <<>>

(* C37: any non-zero engine exit or library error of an imaging operation  *)
(* is returned to the caller as a failure that carries the engine's own    *)
(* message.                                                                *)
C37_FailureCarriesEngineMessage ==
    (sess.fn = "imaging" /\ sess.pc = "returned" /\ EngineFailure # <<>>) =>
        /\ ~sess.ret.ok
        /\ IsSubSeq(EngineFailure, sess.ret.err)

-----------------------------------------------------------------------------
(* Which strategy answers a partition-style query.                         *)

\* the primary query's outputs, with those whose style|disk|partition line
\* is there but has a number missing or not a number
StyleQueryOutcomes ==
    PsOutcomes \cup
    {[spawn |-> TRUE, parts |-> <<"GPT", "x", "1">>],
     [spawn |-> TRUE, parts |-> <<"MBR", "0", "">>],
     [spawn |-> TRUE, parts |-> <<"GPT", "0">>]}

\* disk.rs get_partition_style, `if let Ok(output)` and `parts.len() >= 3`:
\* the primary query's output is taken as the answer
PrimaryAnswers(ps) == ps.spawn /\ Len(ps.parts) >= 3

GetPartitionStyleCalls ==
    {[fn |-> "get_partition_style", pc |-> "call", ps |-> ps, dp |-> dp,
      ds |-> ds, strategies |-> <<>>, ret |-> None] :
        ps \in StyleQueryOutcomes, dp \in DpOutcomes,
        ds \in DiskStyleOutcomes}

\* disk.rs get_partition_style up to the early return: the powershell query
GetPartitionStyle_Primary ==
    /\ FnAt("get_partition_style")
    /\ sess.strategies = <<>>
    /\ IF PrimaryAnswers(sess.ps)
       THEN sess' = [sess EXCEPT
                       !.strategies = <<"primary">>,
                       !.pc = "returned",
                       !.ret = get_partition_style(sess.ps, sess.dp, sess.ds)]
       ELSE sess' = [sess EXCEPT !.strategies = <<"primary">>]
    /\ UNCHANGED wfVars

\* disk.rs get_partition_style, last line: get_partition_style_diskpart
GetPartitionStyle_Fallback ==
    /\ FnAt("get_partition_style")
    /\ sess.strategies = <<"primary">>
    /\ sess' = [sess EXCEPT
                  !.strategies = <<"primary", "fallback">>,
                  !.pc = "returned",
                  !.ret = get_partition_style_diskpart(sess.dp, sess.ds)]
    /\ UNCHANGED wfVars

\* the primary query failed, or its data is incomplete: the style is not
\* recognised, or the disk or the partition number is missing or unparsable
PrimaryFailedOrIncomplete(ps) ==
    \/ ~ps.spawn
    \/ Len(ps.parts) < 3
    \/ ps.parts[1] \notin {"GPT", "MBR"}
    \/ parse_u32(ps.parts[2]) = None
    \/ parse_u32(ps.parts[3]) = None

(* C38: the fallback (partitioning-tool transcript) strategy is used       *)
(* whenever the primary query fails or returns incomplete data             *)
(* (unrecognised style, or a missing or unparsable disk or partition       *)
(* number), and only then.                                                 *)
C38_FallbackIffPrimaryIncomplete ==
    (sess.fn = "get_partition_style" /\ sess.pc = "returned") =>
        (sess.strategies = <<"primary", "fallback">>
            <=> PrimaryFailedOrIncomplete(sess.ps))

-----------------------------------------------------------------------------
(* The percent value of a progress event, from the engine's text to the UI. *)

MaxLineLen == 3

DecDigits == <<"0", "1", "2", "3", "4", "5", "6", "7", "8", "9">>

IsAsciiDigit(c) == \E d \in DOMAIN DecDigits : DecDigits[d] = c

DigitValue(c) == (CHOOSE d \in DOMAIN DecDigits : DecDigits[d] = c) - 1

RECURSIVE DecValue(_)
DecValue(s) ==
    IF s = <<>> THEN 0
    ELSE DecValue(SubSeq(s, 1, Len(s) - 1)) * 10 + DigitValue(s[Len(s)])

\* str::parse::<u8> on a text without sign: <<v>> for Ok(v), <<>> for Err
parse_u8(s) ==
    IF s # <<>> /\ (\A i \in DOMAIN s : IsAsciiDigit(s[i])) /\ DecValue(s) <= 255
    THEN <<DecValue(s)>>
    ELSE <<>>

\* parse_progress_line, the `while j >= 0` loop: the digits and dots that
\* stand before position j + 1, blanks skipped while nothing is collected
RECURSIVE ScanBack(_, _, _)
ScanBack(line, j, num_str) ==
    IF j < 1 THEN num_str
    ELSE IF IsAsciiDigit(line[j]) \/ line[j] = "."
    THEN ScanBack(line, j - 1, <<line[j]>> \o num_str)
    ELSE IF line[j] = " " /\ num_str = <<>>
    THEN ScanBack(line, j - 1, num_str)
    ELSE num_str

\* num_str[..dot_pos] when there is a dot, else num_str
BeforeDot(s) ==
    IF \E i \in DOMAIN s : s[i] = "."
    THEN SubSeq(s, 1, (CHOOSE i \in DOMAIN s :
                          s[i] = "." /\ \A k \in 1..(i - 1) : s[k] # ".") - 1)
    ELSE s

\* parse_progress_line, method 1: the first '%' with a parsable number
RECURSIVE PercentToken(_, _)
PercentToken(line, i) ==
    IF i > Len(line) THEN <<>>
    ELSE LET num_str == ScanBack(line, i - 1, <<>>)
             p == IF line[i] = "%" /\ i > 1 /\ num_str # <<>>
                  THEN parse_u8(BeforeDot(num_str)) ELSE <<>>
         IN  IF p # <<>> THEN p ELSE PercentToken(line, i + 1)

Contains(line, c) == \E i \in DOMAIN line : line[i] = c

\* line.split(']').nth(1): the text between the first and the second ']'
AfterBracket(line) ==
    LET first == CHOOSE i \in DOMAIN line :
                     line[i] = "]" /\ \A k \in 1..(i - 1) : line[k] # "]"
        rest == SubSeq(line, first + 1, Len(line))
    IN  IF Contains(rest, "]")
        THEN SubSeq(rest, 1, (CHOOSE i \in DOMAIN rest :
                        rest[i] = "]" /\ \A k \in 1..(i - 1) : rest[k] # "]") - 1)
        ELSE rest

Without1(s, c) == SelectSeq(s, LAMBDA x : x # c)

\* str::replace(".0", "")
RECURSIVE WithoutDotZero(_)
WithoutDotZero(s) ==
    IF Len(s) < 2 THEN s
    ELSE IF s[1] = "." /\ s[2] = "0" THEN WithoutDotZero(SubSeq(s, 3, Len(s)))
    ELSE <<s[1]>> \o WithoutDotZero(Tail(s))

\* 正常系统端 dism.rs 359-417: <<p>> for Some(DismProgress{percentage: p})
parse_progress_line(line) ==
    LET percentage == PercentToken(line, 1) IN
    IF percentage = <<>> /\ Contains(line, "[") /\ Contains(line, "]")
    THEN parse_u8(Without1(WithoutDotZero(
             Without1(Without1(AfterBracket(line), "="), " ")), "%"))
    ELSE percentage

LineAlphabet == {"0", "1", "5", "9", "%", ".", " "}

RECURSIVE LinesUpTo(_)
LinesUpTo(n) ==
    IF n = 0 THEN {<<>>}
    ELSE LET shorter == LinesUpTo(n - 1)
         IN  shorter \cup {Append(l, c) : l \in shorter, c \in LineAlphabet}

\* lines the engine prints: its progress bar in both styles, and any short
\* text over digits, '%', '.' and blank
EngineLines ==
    LinesUpTo(MaxLineLen)
    \cup {<<"[", "=", "=", " ", "]", " ", " ", "1", "0", ".", "0", "%">>,
          <<"[", "=", "=", "=", "]", " ", "2", "5", "%">>,
          <<"[", "=", "]", " ", "1", "0", "0", ".", "0", "%">>,
          <<"[", "=", "]", " ", "3", "0", "0", "%">>,
          <<"[", "=", "]", " ", "2", "0", "0">>,
          <<"[", "=", "]", "=", "5", "0", "]", "9">>,
          <<"1", "5", "0", ".", "5", "%">>}

\* install_progress.rs update_install_progress: base of a step
base_progress(mode, step) ==
    IF mode = "Direct"
    THEN CASE step = 1 -> 0 [] step = 2 -> 5 [] step = 3 -> 10
           [] step = 4 -> 90 [] step = 5 -> 93 [] step = 6 -> 96
           [] step = 7 -> 100 [] OTHER -> 0
    ELSE CASE step = 1 -> 0 [] step = 2 -> 10 [] step = 3 -> 30
           [] step = 4 -> 50 [] step = 5 -> 90 [] step = 6 -> 100
           [] OTHER -> 0

step_weight(mode, step) ==
    IF mode = "Direct" THEN (IF step = 3 THEN 80 ELSE 3)
    ELSE (IF step = 4 THEN 40 ELSE 10)

\* what the native library reports to its progress callback
WimPercents == {0, 50, 100}

ProgressLineCalls ==
    {[fn |-> "progress_line", pc |-> "call", site |-> "Normal", line |-> l,
      wim |-> 0, mode |-> "Direct", step |-> 3, stage |-> "engine",
      chan |-> <<>>, delivered |-> <<>>, step_progress |-> 0,
      total_progress |-> 0, ret |-> None] : l \in EngineLines}
    \cup
    {[fn |-> "progress_line", pc |-> "call", site |-> "PE", line |-> <<>>,
      wim |-> w, mode |-> "Direct", step |-> 3, stage |-> "engine",
      chan |-> <<>>, delivered |-> <<>>, step_progress |-> 0,
      total_progress |-> 0, ret |-> None] : w \in WimPercents}

\* 正常系统端 dism.rs 296-309: one line of the engine's output
RunWithProgress_Line ==
    /\ FnAt("progress_line") /\ sess.site = "Normal"
    /\ sess.stage = "engine"
    /\ LET progress == parse_progress_line(sess.line) IN
       IF progress = <<>>
       THEN sess' = [sess EXCEPT !.stage = "dropped", !.pc = "returned"]
       ELSE sess' = [sess EXCEPT !.stage = "inner", !.chan = progress]
    /\ UNCHANGED wfVars

\* install_progress.rs 327-336: the direct install thread's relay of the
\* engine's events to the UI, as events of step 3
InstallThread_Relay ==
    /\ FnAt("progress_line") /\ sess.site = "Normal"
    /\ sess.stage = "inner"
    /\ sess' = [sess EXCEPT !.stage = "ui", !.chan = <<>>,
                            !.delivered = sess.chan]
    /\ UNCHANGED wfVars

\* install_progress.rs 162-213: update_install_progress
UpdateInstallProgress ==
    /\ FnAt("progress_line") /\ sess.site = "Normal"
    /\ sess.stage = "ui"
    /\ LET percentage == sess.delivered[1] IN
       sess' = [sess EXCEPT
                  !.stage = "shown",
                  !.pc = "returned",
                  !.step_progress = percentage,
                  !.total_progress =
                      Min(base_progress(sess.mode, sess.step)
                            + (percentage * step_weight(sess.mode, sess.step))
                                \div 100,
                          100)]
    /\ UNCHANGED wfVars

\* PE端 dism.rs 249-262: capture_image_swm's forwarding thread
CaptureSwm_Forward ==
    /\ FnAt("progress_line") /\ sess.site = "PE"
    /\ sess' = [sess EXCEPT
                  !.stage = "shown",
                  !.pc = "returned",
                  !.delivered = <<((sess.wim * 80) \div 100) % 256>>]
    /\ UNCHANGED wfVars

(* C39: every progress event delivered to the UI carries a percent value   *)
(* within 0..100, whatever text the imaging engine prints.                 *)
C39_PercentWithin0To100 ==
    (sess.fn = "progress_line" /\ sess.delivered # <<>>) =>
        sess.delivered[1] \in 0..100

-----------------------------------------------------------------------------
(* The system drive as the BitLocker tools read it.                        *)

\* the SystemDrive environment variable: <<>> when unset (or not Unicode),
\* else <<value>>
SystemDriveVars ==
    {<<>>,
     << <<"C", ":">> >>,
     << <<"D", ":">> >>,
     << <<"C", ":", "\\">> >>,
     << <<"C">> >>,
     << <<":">> >>}

\* bitlocker.rs get_system_drive
get_system_drive(var) == IF var = <<>> THEN <<"C", ":">> ELSE var[1]

GetSystemDriveCalls ==
    {[fn |-> "get_system_drive", pc |-> "call", var |-> v, ret |-> None] :
        v \in SystemDriveVars}

GetSystemDrive_Call ==
    /\ FnAt("get_system_drive")
    /\ FnReturn(get_system_drive(sess.var))
    /\ UNCHANGED wfVars

(* C40: get_system_drive always returns a drive designator: a string of at *)
(* least 2 characters that ends with ':', whatever value the SystemDrive   *)
(* environment variable holds or when it is unset.                         *)
C40_SystemDriveIsDesignator ==
    (sess.fn = "get_system_drive" /\ sess.pc = "returned") =>
        /\ Len(sess.ret) >= 2
        /\ sess.ret[Len(sess.ret)] = ":"

-----------------------------------------------------------------------------
(* The functions checked on their own: a call record in sess, one action   *)
(* per call site.                                                          *)

FnCalls == BootModeCalls \cup ImageListCalls \cup GetImageInfoCalls
    \cup GetPartitionsCalls
    \cup UnattendCalls
    \cup FindDataPartitionCalls
    \cup FormatJobCalls
    \cup InstallModeCalls
    \cup RunImagingCalls
    \cup GetPartitionStyleCalls
    \cup ProgressLineCalls
    \cup GetSystemDriveCalls

InitFn ==
    /\ orch = "function"
    /\ pc = "call"
    /\ config = DefaultConfig
    /\ dataPart = None
    /\ marker = None
    /\ target = None
    /\ calls = <<>>
    /\ failures = {}
    /\ uiChan = <<>>
    /\ progChan = <<>>
    /\ engine = IdleEngine
    /\ relay = "none"
    /\ msgbox = <<>>
    /\ reboot = FALSE
    /\ result = <<>>
    /\ sess \in FnCalls

NextFn ==
    \/ BootMode_PEI
    \/ BootMode_DIR
    \/ BootMode_UI
    \/ ImageList_Call
    \/ GetImageInfo_PE
    \/ GetImageInfo_Normal
    \/ ImageInfo_Poll
    \/ GetPartitions_Letter
    \/ GetPartitions_Return
    \/ GenerateUnattend_PE
    \/ GenerateUnattend_NI
    \/ FindDataPartition_PEI
    \/ Job_DirectFormat
    \/ Job_WriteRecord
    \/ Job_PostRebootFormat
    \/ InstallMode_Start
    \/ InstallMode_Thread
    \/ Imaging_PE
    \/ Imaging_Normal
    \/ GetPartitionStyle_Primary
    \/ GetPartitionStyle_Fallback
    \/ RunWithProgress_Line
    \/ InstallThread_Relay
    \/ UpdateInstallProgress
    \/ CaptureSwm_Forward
    \/ GetSystemDrive_Call

SpecFn == InitFn /\ [][NextFn]_vars

-----------------------------------------------------------------------------
(* The application windows and the workflow threads they start.  sess is   *)
(* the App object together with the threads that are alive.                *)

MaxThreads == 2

SystemLetter == "C:"

LastStep(mode) == IF mode = "Direct" THEN 7 ELSE 6

NoMessage == [step |-> 0, pct |-> 0]

\* App::new on either side, before the first frame
AppInit(app) ==
    [fn |-> "app", app |-> app,
     current_panel |-> "SystemInstall",
     is_installing |-> FALSE,
     install_step |-> 0,
     install_mode |-> "Direct",
     install_target |-> None,
     total_progress |-> 0,
     started |-> FALSE,
     rebooting |-> FALSE,
     rx |-> NoMessage,       \* the newest unread message of the channel held
     threads |-> <<>>]       \* the live workflow threads, oldest first

Thread(letter, mode) ==
    [target |-> letter, mode |-> mode, pos |-> 0, current |-> TRUE]

\* the threads that exist once a thread with a channel of its own is
\* spawned: the receivers of the earlier ones are dropped, the threads are
\* not stopped
Spawn(threads, t) ==
    Append([i \in DOMAIN threads |-> [threads[i] EXCEPT !.current = FALSE]],
           t)

\* 正常系统端 system_install.rs 730-808
UI_StartInstallation ==
    /\ sess.app = "Normal" /\ ~sess.rebooting
    /\ sess.current_panel = "SystemInstall"
    /\ ~sess.is_installing
    /\ Len(sess.threads) < MaxThreads
    /\ \E p \in Letters, pe_exists \in BOOLEAN :
         LET mode == IF p # SystemLetter THEN "Direct" ELSE "ViaPE" IN
         IF mode = "ViaPE" /\ ~pe_exists
         THEN sess' = [sess EXCEPT !.install_mode = mode,
                                   !.current_panel = "DownloadProgress"]
         ELSE sess' = [sess EXCEPT !.install_mode = mode,
                                   !.is_installing = TRUE,
                                   !.current_panel = "InstallProgress",
                                   !.total_progress = 0,
                                   !.install_target = p,
                                   !.install_step = 0]
    /\ UNCHANGED wfVars

\* update_install_progress over the channel held: every message overwrites
\* the step and the totals, so the newest one decides
Polled(s) ==
    IF s.rx.step = 0 THEN s
    ELSE [s EXCEPT
            !.install_step = s.rx.step,
            !.total_progress =
                Min(BaseProgress(s.install_mode, s.rx.step)
                      + (s.rx.pct * StepWeight(s.install_mode, s.rx.step))
                            \div 100, 100),
            !.rx = NoMessage]

\* install_progress.rs 114-151: the buttons of the frame
Clicked(s, click) ==
    IF ~s.is_installing
    THEN IF click = "back" THEN [s EXCEPT !.current_panel = "SystemInstall"]
         ELSE s
    ELSE IF s.total_progress >= 100
    THEN IF click = "reboot" THEN [s EXCEPT !.rebooting = TRUE]
         ELSE IF click = "back"
         THEN [s EXCEPT !.is_installing = FALSE,
                        !.current_panel = "SystemInstall"]
         ELSE s
    ELSE IF click = "cancel"
         THEN [s EXCEPT !.is_installing = FALSE,
                        !.current_panel = "SystemInstall"]
         ELSE s

\* install_progress.rs 153-158 with 216-241 / 429-451: the thread start
StartThread(s) ==
    IF s.install_step = 0 /\ s.is_installing
    THEN [s EXCEPT
            !.install_step = 1,
            !.rx = NoMessage,
            !.threads = Spawn(@, Thread(s.install_target, s.install_mode))]
    ELSE s

\* 正常系统端 install_progress.rs 13-159: one frame of the progress panel
UI_ShowInstallProgress ==
    /\ sess.app = "Normal" /\ ~sess.rebooting
    /\ sess.current_panel = "InstallProgress"
    /\ \E click \in {"none", "back", "reboot", "cancel"} :
         LET polled == Polled(sess) IN
         IF ~polled.is_installing
         THEN sess' = Clicked(polled, click)
         ELSE sess' = StartThread(Clicked(polled, click))
    /\ UNCHANGED wfVars

\* PE端 app.rs 96-120 and 154-173: one frame of the PE window
PE_Update ==
    /\ sess.app = "PE"
    /\ LET polled == [sess EXCEPT !.rx = NoMessage] IN
       IF sess.started THEN sess' = polled
       ELSE \E t \in Letters :
              sess' = [sess EXCEPT
                         !.started = TRUE,
                         !.rx = NoMessage,
                         !.threads = Spawn(@, Thread(t, "PE"))]
    /\ UNCHANGED wfVars

Without(threads, i) ==
    [k \in 1..(Len(threads) - 1) |->
        IF k < i THEN threads[k] ELSE threads[k + 1]]

\* a workflow thread enters its next step and reports it on its channel; a
\* send on a channel whose receiver is gone is ignored
Thread_Step ==
    /\ sess.fn = "app" /\ ~sess.rebooting
    /\ \E i \in DOMAIN sess.threads, pct \in {0, 100} :
         LET t == sess.threads[i]
             n == t.pos + 1
         IN  /\ n <= LastStep(t.mode)
             /\ sess' = [sess EXCEPT
                           !.rx = IF t.current
                                  THEN [step |-> n, pct |-> pct] ELSE @,
                           !.threads =
                               IF n = LastStep(t.mode) THEN Without(@, i)
                               ELSE [@ EXCEPT ![i].pos = n]]
    /\ UNCHANGED wfVars

\* a workflow thread returns early after a fatal error
Thread_Fail ==
    /\ sess.fn = "app" /\ ~sess.rebooting
    /\ \E i \in DOMAIN sess.threads :
         sess' = [sess EXCEPT !.threads = Without(@, i)]
    /\ UNCHANGED wfVars

InitUI ==
    /\ orch = "app"
    /\ pc = "frames"
    /\ config = DefaultConfig
    /\ dataPart = None
    /\ marker = None
    /\ target = None
    /\ calls = <<>>
    /\ failures = {}
    /\ uiChan = <<>>
    /\ progChan = <<>>
    /\ engine = IdleEngine
    /\ relay = "none"
    /\ msgbox = <<>>
    /\ reboot = FALSE
    /\ result = <<>>
    /\ sess \in {AppInit("Normal"), AppInit("PE")}

NextUI ==
    \/ UI_StartInstallation
    \/ UI_ShowInstallProgress
    \/ PE_Update
    \/ Thread_Step
    \/ Thread_Fail

SpecUI == InitUI /\ [][NextUI]_vars

(* C28: at any time at most one workflow thread is operating on a target   *)
(* partition; a second install or backup workflow thread is never started  *)
(* while an earlier one is still running, including after the user         *)
(* cancels a running installation and starts another.                      *)
C28_OneWorkflowThread ==
    sess.fn = "app" => Len(sess.threads) <= 1

=============================================================================
